---------------------------- MODULE Spec2Model ----------------------------
(***************************************************************************)
(* A model of the meme-coin aggregator: the reconciliation engine          *)
(* (AggregatorService), the periodic refresh/diff loop (DataRefreshJob)    *)
(* and the subscription registry with its fan-out (WebSocketService).      *)
(*                                                                         *)
(* Numbers.  JavaScript numbers that are averaged or divided (prices and   *)
(* price-change percentages) are modelled as exact rationals extended     *)
(* with the values undefined, NaN and +/-Infinity; floating-point rounding *)
(* is not modelled.  Quantities that are only added and compared (volume,  *)
(* liquidity, market cap, transaction count, timestamps) are integers.     *)
(***************************************************************************)
EXTENDS Integers, Sequences, FiniteSets, TLC

VARIABLES
    \* ---- DataRefreshJob ------------------------------------------------
    previousTokens,     \* AggregatedToken[]: the stored Snapshot
    isRunning,          \* the Idle/Refreshing lock
    wsService,          \* TRUE once initialize() attached the broadcaster
    cronJob,            \* TRUE while the scheduled task exists
    inFlight,           \* refresh() executions suspended on the upstream fetch
    \* ---- WebSocketService and the socket.io adapter --------------------
    connectedClients,   \* set of socket ids
    filterRooms,        \* Map room -> criteria, as a sequence in insertion order
    socketFilterRooms,  \* Map socket id -> Set of rooms (a partial function)
    adapterRooms,       \* socket.io adapter: room -> set of member socket ids
    pendingSubs,        \* subscribe:filters handlers suspended on the cache read
    unsubAcked,         \* sockets whose last filter command acknowledged is a leave-all
    \* ---- cache entry tokens:list:volume:24h:0:0 -------------------------
    cacheList,          \* [present, data]
    \* ---- observation of the last step ----------------------------------
    last,               \* what the last operation did (calls made, outcome)
    delivered,          \* packets handed to sockets by the last operation
    \* ---- harness for the pure functions --------------------------------
    pin, pout, pstage

vars == <<previousTokens, isRunning, wsService, cronJob, inFlight,
          connectedClients, filterRooms, socketFilterRooms, adapterRooms,
          pendingSubs, unsubAcked, cacheList, last, delivered,
          pin, pout, pstage>>

jobVars == <<previousTokens, isRunning, wsService, cronJob, inFlight>>
wsVars  == <<connectedClients, filterRooms, socketFilterRooms, adapterRooms,
             pendingSubs, unsubAcked>>
pureVars == <<pin, pout, pstage>>

-----------------------------------------------------------------------------
(* Numbers *)

RECURSIVE GCD(_, _)
GCD(a, b) == IF b = 0 THEN a ELSE GCD(b, a % b)

Abs(x) == IF x < 0 THEN -x ELSE x

\* A rational n/d with d > 0, in lowest terms.
Rat(n, d) ==
    LET g == GCD(Abs(n), d)
    IN  [k |-> "num", n |-> n \div g, d |-> d \div g]

Num(n)   == [k |-> "num", n |-> n, d |-> 1]
Undef    == [k |-> "undef", n |-> 0, d |-> 1]
NaN      == [k |-> "nan", n |-> 0, d |-> 1]
PosInf   == [k |-> "inf", n |-> 1, d |-> 1]
NegInf   == [k |-> "inf", n |-> -1, d |-> 1]

IsNum(x) == x.k = "num"

\* JavaScript truthiness of a number-or-undefined: 0, NaN and undefined are falsy.
Truthy(x) == \/ x.k = "inf"
             \/ (x.k = "num" /\ x.n # 0)

\* x ?? 0
OrZero(x) == IF x.k = "undef" THEN Num(0) ELSE x

\* a > b on numbers; any comparison with NaN or undefined is false.
NumGt(a, b) ==
    /\ a.k \in {"num", "inf"}
    /\ b.k \in {"num", "inf"}
    /\ IF a.k = "num" /\ b.k = "num" THEN a.n * b.d > b.n * a.d
       ELSE IF a.k = "inf" /\ b.k = "inf" THEN a.n > b.n
       ELSE IF a.k = "inf" THEN a.n > 0
       ELSE b.n < 0

NumGe(a, b) ==
    /\ a.k \in {"num", "inf"}
    /\ b.k \in {"num", "inf"}
    /\ ~NumGt(b, a)

\* an average of the two operands that ignores the count
RunningAvgUnweighted(e, k, x) ==
    IF IsNum(e) /\ IsNum(x)
    THEN Rat(e.n * x.d + x.n * e.d, e.d * x.d * 2)
    ELSE NaN

\* (e * k + x) / (k + 1) for an integer count k >= 1
RunningAvg(e, k, x) ==
    IF IsNum(e) /\ IsNum(x)
    THEN Rat(e.n * k * x.d + x.n * e.d, e.d * x.d * (k + 1))
    ELSE NaN

\* ((new - old) / old) * 100 as JavaScript evaluates it
PctChange(new, old) ==
    IF ~(IsNum(new) /\ IsNum(old)) THEN NaN
    ELSE IF old.n = 0
         THEN (IF new.n = 0 THEN NaN ELSE IF new.n > 0 THEN PosInf ELSE NegInf)
         ELSE LET nn == (new.n * old.d - old.n * new.d) * 100 * old.d
                  dd == new.d * old.d * old.n
              IN  IF dd > 0 THEN Rat(nn, dd) ELSE Rat(-nn, -dd)

\* Math.abs
NumAbs(x) == IF x.k = "num" THEN [x EXCEPT !.n = Abs(x.n)]
             ELSE IF x.k = "inf" THEN PosInf
             ELSE NaN

Max(a, b) == IF a >= b THEN a ELSE b
Min(a, b) == IF a <= b THEN a ELSE b

-----------------------------------------------------------------------------
(* Token records (token.types.ts) and the static configuration *)

\* String.prototype.toLowerCase on the addresses the model uses
Lower(a) == CASE a = "A" -> "a"
              [] a = "B" -> "b"
              [] a = "C" -> "c"
              [] OTHER   -> a

\* a table in which a source it does not list outranks the listed ones
SourcePriorityUnknownHighest(source) ==
    CASE source = "dexscreener"   -> 3
      [] source = "jupiter"       -> 2
      [] source = "geckoterminal" -> 1
      [] OTHER                    -> 4

\* CONSTANTS.SOURCE_PRIORITY[source] || 0
SourcePriority(source) ==
    CASE source = "dexscreener"   -> 3
      [] source = "jupiter"       -> 2
      [] source = "geckoterminal" -> 1
      [] OTHER                    -> 0

\* config.websocket.priceChangeThreshold / volumeSpikeThreshold (defaults)
PriceChangeThreshold == 5
VolumeSpikeThreshold == 50

\* the quality bar hard-wired into applyFilters and getTokens
MinQualityScore == 50

\* broadcastTokensRefresh(newTokens.slice(0, 50))
TopN == 50

\* A Token as an upstream adapter produces it.
MkToken(addr, name, src, price, mcap, vol, liq, tx, c1h, c24h, ts) ==
    [token_address |-> addr, token_name |-> name, token_ticker |-> name,
     price_sol |-> price, market_cap_sol |-> mcap, volume_sol |-> vol,
     liquidity_sol |-> liq, transaction_count |-> tx,
     price_1hr_change |-> c1h, price_24hr_change |-> c24h,
     price_7d_change |-> Undef,
     protocol |-> src, source |-> src, last_updated |-> ts]

TokenFields == {"token_address", "token_name", "token_ticker", "price_sol",
                "market_cap_sol", "volume_sol", "liquidity_sol",
                "transaction_count", "price_1hr_change", "price_24hr_change",
                "price_7d_change", "protocol", "source", "last_updated"}

AggregatedFields == TokenFields \cup {"sources", "data_quality_score"}

\* { ...base, ...overrides } : object spread, later keys win
Spread(base, over) ==
    [f \in (DOMAIN base) \cup (DOMAIN over) |->
        IF f \in DOMAIN over THEN over[f] ELSE base[f]]

-----------------------------------------------------------------------------
(* AggregatorService *)

\* a score that counts the 1h change only when it is truthy
calculateQualityScoreTruthyChange(token) ==
    LET s1 == IF NumGt(token.price_sol, Num(0)) THEN 20 ELSE 0
        s2 == IF token.volume_sol > 0 THEN 20 ELSE 0
        s3 == IF token.liquidity_sol > 0 THEN 20 ELSE 0
        s4 == IF token.market_cap_sol > 0 THEN 15 ELSE 0
        s5 == IF token.transaction_count > 0 THEN 15 ELSE 0
        s6 == IF Truthy(token.price_1hr_change) THEN 10 ELSE 0
    IN  Min(s1 + s2 + s3 + s4 + s5 + s6, 100)

calculateQualityScore(token) ==
    LET s1 == IF NumGt(token.price_sol, Num(0)) THEN 20 ELSE 0
        s2 == IF token.volume_sol > 0 THEN 20 ELSE 0
        s3 == IF token.liquidity_sol > 0 THEN 20 ELSE 0
        s4 == IF token.market_cap_sol > 0 THEN 15 ELSE 0
        s5 == IF token.transaction_count > 0 THEN 15 ELSE 0
        s6 == IF token.price_1hr_change.k # "undef" THEN 10 ELSE 0
    IN  Min(s1 + s2 + s3 + s4 + s5 + s6, 100)

mergeDuplicateTokens(existing, newToken) ==
    LET existingPriority == SourcePriority(existing.source)
        newPriority      == SourcePriority(newToken.source)
        primaryToken     == IF newPriority > existingPriority THEN newToken ELSE existing
        n                == Len(existing.sources)
        volumeCount      == n + 1
        e24              == existing.price_24hr_change
        n24              == newToken.price_24hr_change
    IN  Spread(primaryToken,
          [token_address     |-> existing.token_address,
           price_sol         |-> RunningAvg(existing.price_sol, n, newToken.price_sol),
           volume_sol        |-> existing.volume_sol + newToken.volume_sol,
           liquidity_sol     |-> existing.liquidity_sol + newToken.liquidity_sol,
           transaction_count |-> existing.transaction_count + newToken.transaction_count,
           price_1hr_change  |-> RunningAvg(existing.price_1hr_change, n,
                                            newToken.price_1hr_change),
           price_24hr_change |-> IF Truthy(e24) /\ Truthy(n24)
                                 THEN RunningAvg(e24, n, n24)
                                 ELSE IF Truthy(e24) THEN e24 ELSE n24,
           sources           |-> Append(existing.sources, newToken.source),
           data_quality_score |->
               calculateQualityScore(
                   Spread(primaryToken,
                          [volume_sol |-> existing.volume_sol + newToken.volume_sol])),
           last_updated      |-> Max(existing.last_updated, newToken.last_updated)])

\* tokenArrays.flat()
RECURSIVE Flat(_)
Flat(arrays) == IF arrays = <<>> THEN <<>> ELSE Head(arrays) \o Flat(Tail(arrays))

\* a merge that files tokens under the address as written
MergeKeyCaseSensitive(token) == token.token_address

\* the key under which mergeTokens files a token in tokenMap
MergeKey(token) == Lower(token.token_address)

\* index of the entry of tokenMap (a Map, kept as a sequence in insertion
\* order) whose key is `key`, or 0
MapIndex(tokenMap, key) ==
    IF \E i \in 1..Len(tokenMap) : MergeKey(tokenMap[i]) = key
    THEN CHOOSE i \in 1..Len(tokenMap) : MergeKey(tokenMap[i]) = key
    ELSE 0

\* one iteration of the for-loop of mergeTokens
MergeStep(tokenMap, token) ==
    LET i == MapIndex(tokenMap, MergeKey(token))
    IN  IF i = 0
        THEN Append(tokenMap,
                    Spread(token, [sources |-> <<token.source>>,
                                   data_quality_score |-> calculateQualityScore(token)]))
        ELSE [tokenMap EXCEPT ![i] = mergeDuplicateTokens(tokenMap[i], token)]

RECURSIVE MergeLoop(_, _)
MergeLoop(tokenMap, allTokens) ==
    IF allTokens = <<>> THEN tokenMap
    ELSE MergeLoop(MergeStep(tokenMap, Head(allTokens)), Tail(allTokens))

mergeTokens(tokenArrays) == MergeLoop(<<>>, Flat(tokenArrays))

\* the metric the comparator of sortTokens subtracts
SortKey(t, sortBy, period) ==
    CASE sortBy = "volume"      -> Num(t.volume_sol)
      [] sortBy = "marketCap"   -> Num(t.market_cap_sol)
      [] sortBy = "liquidity"   -> Num(t.liquidity_sol)
      [] sortBy = "priceChange" ->
            (IF period = "1h" THEN OrZero(t.price_1hr_change)
             ELSE IF period = "24h" THEN OrZero(t.price_24hr_change)
             ELSE OrZero(t.price_7d_change))
      [] OTHER                  -> Num(0)

\* an insertion that puts x before the elements the comparator calls equal
RECURSIVE SortInsertBeforeEquals(_, _, _, _)
SortInsertBeforeEquals(sorted, x, sortBy, period) ==
    IF sorted = <<>> THEN <<x>>
    ELSE IF NumGe(SortKey(x, sortBy, period), SortKey(Head(sorted), sortBy, period))
         THEN <<x>> \o sorted
         ELSE <<Head(sorted)>> \o SortInsertBeforeEquals(Tail(sorted), x, sortBy, period)

\* insert x, which followed every element of `sorted` in the input, keeping
\* the order of elements the comparator calls equal (Array.prototype.sort is
\* stable)
RECURSIVE SortInsert(_, _, _, _)
SortInsert(sorted, x, sortBy, period) ==
    IF sorted = <<>> THEN <<x>>
    ELSE IF NumGt(SortKey(x, sortBy, period), SortKey(Head(sorted), sortBy, period))
         THEN <<x>> \o sorted
         ELSE <<Head(sorted)>> \o SortInsert(Tail(sorted), x, sortBy, period)

RECURSIVE SortLoop(_, _, _, _)
SortLoop(sorted, rest, sortBy, period) ==
    IF rest = <<>> THEN sorted
    ELSE SortLoop(SortInsert(sorted, Head(rest), sortBy, period), Tail(rest),
                  sortBy, period)

\* tokens.sort(...): the result; the array passed in is the array returned,
\* so the caller's array holds this order afterwards
sortTokens(tokens, sortBy, period) == SortLoop(<<>>, tokens, sortBy, period)

\* filterTokens returns the very array it was given when no threshold is
\* supplied (`let filtered = tokens` is never reassigned); otherwise
\* Array.prototype.filter allocates a new array.
filterTokensReturnsInput(filters) ==
    /\ filters.minVolume.k = "undef"
    /\ filters.minLiquidity.k = "undef"
    /\ filters.minQualityScore.k = "undef"

\* a filter that keeps a record meeting any one supplied threshold
filterTokensAnyThreshold(tokens, filters) ==
    LET byVol(t) == filters.minVolume.k # "undef"
                    /\ NumGe(Num(t.volume_sol), filters.minVolume)
        byLiq(t) == filters.minLiquidity.k # "undef"
                    /\ NumGe(Num(t.liquidity_sol), filters.minLiquidity)
        byQ(t)   == filters.minQualityScore.k # "undef"
                    /\ NumGe(Num(t.data_quality_score), filters.minQualityScore)
        keep(t)  == filterTokensReturnsInput(filters) \/ byVol(t) \/ byLiq(t) \/ byQ(t)
    IN  SelectSeq(tokens, keep)

filterTokens(tokens, filters) ==
    LET byVol(t) == filters.minVolume.k = "undef"
                    \/ NumGe(Num(t.volume_sol), filters.minVolume)
        byLiq(t) == filters.minLiquidity.k = "undef"
                    \/ NumGe(Num(t.liquidity_sol), filters.minLiquidity)
        byQ(t)   == filters.minQualityScore.k = "undef"
                    \/ NumGe(Num(t.data_quality_score), filters.minQualityScore)
        keep(t)  == byVol(t) /\ byLiq(t) /\ byQ(t)
    IN  SelectSeq(tokens, keep)

\* a lookup that falls back on the first old token when none matches
OldTokenForOrFirst(oldTokens, newToken) ==
    LET hits == {i \in 1..Len(oldTokens) :
                    Lower(oldTokens[i].token_address) = Lower(newToken.token_address)}
    IN  IF hits = {} THEN (IF Len(oldTokens) > 0 THEN 1 ELSE 0)
        ELSE CHOOSE i \in hits : \A j \in hits : j <= i

\* oldTokenMap.get(address): the last old token with that lower-cased address
OldTokenFor(oldTokens, newToken) ==
    LET hits == {i \in 1..Len(oldTokens) :
                    Lower(oldTokens[i].token_address) = Lower(newToken.token_address)}
    IN  IF hits = {} THEN 0 ELSE CHOOSE i \in hits : \A j \in hits : j <= i

\* a test that leaves Math.abs out
IsPriceChangeRisesOnly(oldToken, newToken, priceThreshold) ==
    NumGe(PctChange(newToken.price_sol, oldToken.price_sol), Num(priceThreshold))

IsPriceChange(oldToken, newToken, priceThreshold) ==
    NumGe(NumAbs(PctChange(newToken.price_sol, oldToken.price_sol)), Num(priceThreshold))

IsVolumeSpike(oldToken, newToken, volumeThreshold) ==
    LET volumeChangePct ==
            IF oldToken.volume_sol > 0
            THEN PctChange(Num(newToken.volume_sol), Num(oldToken.volume_sol))
            ELSE Num(0)
    IN  NumGe(volumeChangePct, Num(volumeThreshold))

detectSignificantChanges(oldTokens, newTokens, priceThreshold, volumeThreshold) ==
    LET hasOld(t)  == OldTokenFor(oldTokens, t) # 0
        old(t)     == oldTokens[OldTokenFor(oldTokens, t)]
        isPrice(t) == hasOld(t) /\ IsPriceChange(old(t), t, priceThreshold)
        isVol(t)   == hasOld(t) /\ IsVolumeSpike(old(t), t, volumeThreshold)
    IN  [priceChanges |-> SelectSeq(newTokens, isPrice),
         volumeSpikes |-> SelectSeq(newTokens, isVol)]

-----------------------------------------------------------------------------
(* WebSocketService: the helpers *)

SortOptions == {"volume", "priceChange", "marketCap", "liquidity"}
TimePeriods == {"1h", "24h", "7d"}

DefaultLimit == 20
MaxLimit     == 100

\* typeof x === 'number' (NaN and Infinity are numbers, undefined is not)
IsNumberType(x) == x.k \in {"num", "nan", "inf"}

\* Math.min(x, 100) for x > 0
MinWithMax(x) == IF NumGt(x, Num(MaxLimit)) THEN Num(MaxLimit) ELSE x

\* a normalisation that validates what is given and fills in nothing
normalizeFiltersNoDefaults(criteria) ==
    [sortBy       |-> criteria.sortBy,
     period       |-> criteria.period,
     minVolume    |-> IF IsNumberType(criteria.minVolume) THEN criteria.minVolume ELSE Undef,
     minLiquidity |-> IF IsNumberType(criteria.minLiquidity) THEN criteria.minLiquidity
                      ELSE Undef,
     limit        |-> IF IsNumberType(criteria.limit) /\ NumGt(criteria.limit, Num(0))
                      THEN MinWithMax(criteria.limit)
                      ELSE criteria.limit]

normalizeFilters(criteria) ==
    [sortBy       |-> IF criteria.sortBy \in SortOptions THEN criteria.sortBy ELSE "volume",
     period       |-> IF criteria.period \in TimePeriods THEN criteria.period ELSE "24h",
     minVolume    |-> IF IsNumberType(criteria.minVolume) THEN criteria.minVolume ELSE Undef,
     minLiquidity |-> IF IsNumberType(criteria.minLiquidity) THEN criteria.minLiquidity
                      ELSE Undef,
     limit        |-> IF IsNumberType(criteria.limit) /\ NumGt(criteria.limit, Num(0))
                      THEN MinWithMax(criteria.limit)
                      ELSE Num(DefaultLimit)]

\* `filters:sort=..&period=..&minVol=..&minLiq=..&limit=..`: the string is
\* kept as the tuple of the parts it is joined from; `x ?? 0` prints an
\* absent threshold as 0.
filterRoomId(criteria) ==
    <<"filters", criteria.sortBy, criteria.period,
      OrZero(criteria.minVolume), OrZero(criteria.minLiquidity), criteria.limit>>

\* `token:<address>`
TokenRoomId(tokenAddress) ==
    <<"token", tokenAddress, "", Num(0), Num(0), Num(0)>>

\* a slice that is not cut at the group's limit
SliceEndIgnoresLimit(n) == MaxLimit

\* the end index Array.prototype.slice(0, n) uses: n truncated to an integer
SliceEnd(n) == IF n.k = "num" THEN (IF n.n > 0 THEN n.n \div n.d ELSE 0)
               ELSE 0

Slice(arr, n) == SubSeq(arr, 1, Min(Len(arr), n))

\* an applyFilters that leaves the quality bar out
ApplyFilterThresholdsNoQuality(criteria) ==
    [minVolume       |-> criteria.minVolume,
     minLiquidity    |-> criteria.minLiquidity,
     minQualityScore |-> Undef]

\* the thresholds applyFilters hands to filterTokens
ApplyFilterThresholds(criteria) ==
    [minVolume       |-> criteria.minVolume,
     minLiquidity    |-> criteria.minLiquidity,
     minQualityScore |-> Num(MinQualityScore)]

applyFilters(tokens, criteria) ==
    LET filtered == filterTokens(tokens, ApplyFilterThresholds(criteria))
        sorted   == sortTokens(filtered, criteria.sortBy, criteria.period)
    IN  Slice(sorted, SliceEnd(criteria.limit))

\* what the array handed to applyFilters holds after the call: sortTokens
\* sorts in place, so it is reordered exactly when filterTokens handed the
\* same array on.
ArrayAfterApplyFilters(tokens, criteria) ==
    IF filterTokensReturnsInput(ApplyFilterThresholds(criteria))
    THEN sortTokens(tokens, criteria.sortBy, criteria.period)
    ELSE tokens

-----------------------------------------------------------------------------
(* The environment: sockets, upstream answers, subscription requests *)

Sockets == {"s1", "s2"}

\* at most this many subscribe:filters handlers wait for the cache at once
MaxPending == 1

\* at most this many refresh() executions are let past the lock at once
MaxInFlight == 2

DexTok(addr, price, vol) ==
    MkToken(addr, "dex", "dexscreener", Num(price), 10, vol, 50, 5, Num(1), Num(2), 1)

\* transformJupiterToken: no price, market cap, liquidity or transactions
JupTok(addr, vol) ==
    MkToken(addr, "jup", "jupiter", Num(0), 0, vol, 0, 0, Num(0), Undef, 2)

Fulfilled(list) == [ok |-> TRUE, value |-> list]
Rejected        == [ok |-> FALSE, value |-> <<>>]

\* what dexScreenerClient.getTrendingTokens() may settle with
DexOutcomes ==
    {Rejected,
     Fulfilled(<<>>),
     Fulfilled(<<DexTok("A", 100, 100)>>),
     Fulfilled(<<DexTok("A", 110, 200), DexTok("B", 0, 60)>>),
     Fulfilled(<<DexTok("A", 100, 100), DexTok("B", 5, 60)>>)}

\* what jupiterClient.searchTokens('SOL') may settle with
JupOutcomes ==
    {Rejected,
     Fulfilled(<<JupTok("b", 50)>>)}

\* the criteria objects clients send with subscribe:filters
RawCriteria ==
    {[sortBy |-> "undefined", period |-> "undefined", minVolume |-> Undef,
      minLiquidity |-> Undef, limit |-> Undef],
     [sortBy |-> "liquidity", period |-> "24h", minVolume |-> Num(100),
      minLiquidity |-> Undef, limit |-> Num(1)]}

NoRoom == <<"", "", "", Num(0), Num(0), Num(0)>>

\* one emit: the event, its addressing, the sockets the adapter hands it to,
\* and its payload
Emit(event, scope, room, to, tokens, pct) ==
    [event |-> event, scope |-> scope, room |-> room, to |-> to,
     tokens |-> tokens, pct |-> pct]

RoomMembers(rooms, room) == {s \in Sockets : <<room, s>> \in rooms}

\* this.filterRooms.has(room)
FilterRoomsHas(fr, room) == \E i \in 1..Len(fr) : fr[i].room = room

\* this.filterRooms.delete(room)
FilterRoomsDelete(fr, room) ==
    LET keep(e) == e.room # room IN SelectSeq(fr, keep)

RegisteredRooms(fr) == {fr[i].room : i \in 1..Len(fr)}

-----------------------------------------------------------------------------
(* TokenDataService.fetchAndAggregateTokens *)

\* results.forEach: a fulfilled source contributes its list, in source
\* order; a rejected one contributes nothing
\* a collection that gives up on every list when one call was rejected
SettledArraysAllOrNothing(results) ==
    IF \A i \in 1..Len(results) : results[i].ok
    THEN [i \in 1..Len(results) |-> results[i].value]
    ELSE <<>>

SettledArrays(results) ==
    LET ok(r) == r.ok
        oks   == SelectSeq(results, ok)
    IN  [i \in 1..Len(oks) |-> oks[i].value]

fetchAndAggregateTokens(dex, jup) == mergeTokens(SettledArrays(<<dex, jup>>))

-----------------------------------------------------------------------------
(* WebSocketService: the broadcasts *)

broadcastTokensRefresh(tokens, clients) ==
    <<Emit("tokens:refresh", "all", NoRoom, clients, tokens, Num(0))>>

broadcastPriceAlert(token, changePercent, clients) ==
    <<Emit("price:alert", "all", NoRoom, clients, <<token>>, changePercent)>>

broadcastVolumeSpike(token, spikePercent, clients) ==
    <<Emit("volume:spike", "all", NoRoom, clients, <<token>>, spikePercent)>>

\* an emit to every socket of the namespace instead of the room
RoomRecipientsEverybody(rooms, room) == {p[2] : p \in rooms}

\* the recipients of this.io.to(room).emit
RoomRecipients(rooms, room) == RoomMembers(rooms, room)

\* the for-loop of broadcastTokensRefreshForFilters from entry i on: the
\* emits, and what the array `tokens` holds afterwards
RECURSIVE FilterLoop(_, _, _, _)
FilterLoop(fr, i, rooms, tokens) ==
    IF i > Len(fr) THEN [emits |-> <<>>, tokens |-> tokens]
    ELSE LET filtered == applyFilters(tokens, fr[i].criteria)
             after    == ArrayAfterApplyFilters(tokens, fr[i].criteria)
             rest     == FilterLoop(fr, i + 1, rooms, after)
         IN  [emits  |-> <<Emit("tokens:refresh", "room", fr[i].room,
                                RoomRecipients(rooms, fr[i].room), filtered, Num(0))>>
                          \o rest.emits,
              tokens |-> rest.tokens]

broadcastTokensRefreshForFilters(fr, rooms, tokens) ==
    IF Len(fr) = 0 THEN [emits |-> <<>>, tokens |-> tokens]
    ELSE FilterLoop(fr, 1, rooms, tokens)

-----------------------------------------------------------------------------
(* DataRefreshJob.refresh: the part after the upstream fetch *)

\* a refresh() without the lock test
RefreshNeverSkips(running) == FALSE

\* if (this.isRunning) return;
RefreshSkips(running) == running

\* previousTokens.find(t => same lower-cased address): the first match, or 0
FindOld(prev, token) ==
    LET hits == {i \in 1..Len(prev) :
                    Lower(prev[i].token_address) = Lower(token.token_address)}
    IN  IF hits = {} THEN 0 ELSE CHOOSE i \in hits : \A j \in hits : i <= j

Call(fn, emits) == [fn |-> fn, emits |-> emits]

\* the loop over priceChanges, from hit i on
RECURSIVE PriceAlertCalls(_, _, _, _)
PriceAlertCalls(prev, hits, i, clients) ==
    IF i > Len(hits) THEN <<>>
    ELSE LET token == hits[i]
             o     == FindOld(prev, token)
             rest  == PriceAlertCalls(prev, hits, i + 1, clients)
         IN  IF o # 0
             THEN <<Call("broadcastPriceAlert",
                         broadcastPriceAlert(token,
                             PctChange(token.price_sol, prev[o].price_sol), clients))>>
                  \o rest
             ELSE rest

\* the loop over volumeSpikes, from hit i on
RECURSIVE VolumeSpikeCalls(_, _, _, _)
VolumeSpikeCalls(prev, hits, i, clients) ==
    IF i > Len(hits) THEN <<>>
    ELSE LET token == hits[i]
             o     == FindOld(prev, token)
             rest  == VolumeSpikeCalls(prev, hits, i + 1, clients)
         IN  IF o # 0 /\ prev[o].volume_sol > 0
             THEN <<Call("broadcastVolumeSpike",
                         broadcastVolumeSpike(token,
                             PctChange(Num(token.volume_sol), Num(prev[o].volume_sol)),
                             clients))>>
                  \o rest
             ELSE rest

\* a refresh() that accepts an empty result
HasNoTokensNever(newTokens) == FALSE

\* if (newTokens.length === 0) return;
HasNoTokens(newTokens) == Len(newTokens) = 0

\* a guard that forgets the previous Snapshot
DetectionRunsWithoutPrevious(prev, ws) == ws

\* if (this.previousTokens.length > 0 && this.wsService)
DetectionRuns(prev, ws) == Len(prev) > 0 /\ ws

\* a refresh broadcast that is not gated by the client count
RefreshBroadcastAlways(clients) == TRUE

\* if (this.wsService.getConnectedClientsCount() > 0)
RefreshBroadcastRuns(clients) == Cardinality(clients) > 0

\* a cycle that sends the refresh broadcasts before the alerts
RefreshCallsWithRefreshFirst(prev, newTokens, ws, clients, fr, rooms, priceThreshold, volumeThreshold) ==
    IF DetectionRuns(prev, ws)
    THEN LET ch == detectSignificantChanges(prev, newTokens,
                                            priceThreshold, volumeThreshold)
         IN  (IF RefreshBroadcastRuns(clients)
              THEN <<Call("broadcastTokensRefresh",
                          broadcastTokensRefresh(Slice(newTokens, TopN), clients)),
                     Call("broadcastTokensRefreshForFilters",
                          broadcastTokensRefreshForFilters(fr, rooms, newTokens).emits)>>
              ELSE <<>>)
             \o PriceAlertCalls(prev, ch.priceChanges, 1, clients)
             \o VolumeSpikeCalls(prev, ch.volumeSpikes, 1, clients)
    ELSE <<>>

\* the broadcast calls refresh() makes for newTokens, in program order,
\* under the configured thresholds
RefreshCallsWith(prev, newTokens, ws, clients, fr, rooms, priceThreshold, volumeThreshold) ==
    IF DetectionRuns(prev, ws)
    THEN LET ch == detectSignificantChanges(prev, newTokens,
                                            priceThreshold, volumeThreshold)
         IN  PriceAlertCalls(prev, ch.priceChanges, 1, clients)
             \o VolumeSpikeCalls(prev, ch.volumeSpikes, 1, clients)
             \o (IF RefreshBroadcastRuns(clients)
                 THEN <<Call("broadcastTokensRefresh",
                             broadcastTokensRefresh(Slice(newTokens, TopN), clients)),
                        Call("broadcastTokensRefreshForFilters",
                             broadcastTokensRefreshForFilters(fr, rooms, newTokens).emits)>>
                 ELSE <<>>)
    ELSE <<>>

\* the same under the default configuration
RefreshCalls(prev, newTokens, ws, clients, fr, rooms) ==
    RefreshCallsWith(prev, newTokens, ws, clients, fr, rooms,
                     PriceChangeThreshold, VolumeSpikeThreshold)

BroadcastFns == {"broadcastPriceAlert", "broadcastVolumeSpike",
                 "broadcastTokensRefresh", "broadcastTokensRefreshForFilters"}

\* index of the first call of the function that throws in this cycle, or 0
ThrowIndex(calls, failing) ==
    LET hits == {i \in 1..Len(calls) : calls[i].fn = failing}
    IN  IF hits = {} THEN 0 ELSE CHOOSE i \in hits : \A j \in hits : i <= j

\* the calls that returned before the exception, if any
Completed(calls, failing) ==
    IF ThrowIndex(calls, failing) = 0 THEN calls
    ELSE SubSeq(calls, 1, ThrowIndex(calls, failing) - 1)

\* the calls that were made: those that returned and the one that threw
Attempted(calls, failing) ==
    IF ThrowIndex(calls, failing) = 0 THEN calls
    ELSE SubSeq(calls, 1, ThrowIndex(calls, failing))

RECURSIVE EmitsOf(_)
EmitsOf(calls) == IF calls = <<>> THEN <<>>
                  ELSE Head(calls).emits \o EmitsOf(Tail(calls))

FnsOf(calls) == [i \in 1..Len(calls) |-> calls[i].fn]

\* what the array newTokens holds when refresh() reaches
\* `this.previousTokens = newTokens`
NewTokensAtStore(calls, newTokens, fr, rooms) ==
    IF \E i \in 1..Len(calls) : calls[i].fn = "broadcastTokensRefreshForFilters"
    THEN broadcastTokensRefreshForFilters(fr, rooms, newTokens).tokens
    ELSE newTokens

\* the value stored by refresh() for a non-empty newTokens
StoredAfterCycle(prev, newTokensAtStore, threw) ==
    IF threw THEN prev ELSE newTokensAtStore

\* try { ... } catch (error) { logger.error(...) } finally { ... }: how the
\* promise returned by refresh() settles
RefreshSettles(threw) == "resolved"

\* a release at the end of the try block instead of in a finally
LockAfterCycleKeptOnThrow(outcome) == outcome \in {"fetchThrew", "broadcastThrew"}

\* finally { this.isRunning = false; }
LockAfterCycle(outcome) == FALSE

-----------------------------------------------------------------------------
(* The state machine *)

EmptyMap == [s \in {} |-> {}]

InitJob ==
    /\ previousTokens = <<>>
    /\ isRunning = FALSE
    /\ wsService = FALSE
    /\ cronJob = FALSE
    /\ inFlight = 0

InitWs ==
    /\ connectedClients = {}
    /\ filterRooms = <<>>
    /\ socketFilterRooms = EmptyMap
    /\ adapterRooms = {}
    /\ pendingSubs = <<>>
    /\ unsubAcked = {}
    /\ cacheList = [present |-> FALSE, data |-> <<>>]
    /\ last = [op |-> "init"]
    /\ delivered = <<>>

InitPureIdle ==
    /\ pin = <<>>
    /\ pout = <<>>
    /\ pstage = "idle"

Init == InitJob /\ InitWs /\ InitPureIdle

\* ---- DataRefreshJob ------------------------------------------------------

\* refresh() up to `await this.tokenDataService.fetchAndAggregateTokens()`
RefreshEnter(trigger) ==
    IF RefreshSkips(isRunning)
    THEN /\ UNCHANGED <<isRunning, inFlight>>
         /\ last' = [op |-> "refreshCall", trigger |-> trigger, skipped |-> TRUE,
                     inFlightBefore |-> inFlight]
    ELSE /\ inFlight < MaxInFlight
         /\ isRunning' = TRUE
         /\ inFlight' = inFlight + 1
         /\ last' = [op |-> "refreshCall", trigger |-> trigger, skipped |-> FALSE,
                     inFlightBefore |-> inFlight]

\* initialize(wsService): attach the broadcaster, schedule the task, refresh
Initialize ==
    /\ ~wsService
    /\ wsService' = TRUE
    /\ cronJob' = TRUE
    /\ RefreshEnter("initialize")
    /\ delivered' = <<>>
    /\ UNCHANGED <<previousTokens, wsVars, cacheList, pureVars>>

\* a scheduled tick or a manual trigger calls refresh()
RefreshCall(trigger) ==
    /\ trigger = "cron" => cronJob
    /\ RefreshEnter(trigger)
    /\ delivered' = <<>>
    /\ UNCHANGED <<previousTokens, wsService, cronJob, wsVars, cacheList, pureVars>>

\* the broadcast functions one of which may throw in a cycle making `calls`
MayThrow(calls) == {"none"} \cup {calls[i].fn : i \in 1..Len(calls)}

\* the upstream fetch settled: refresh() runs from line 67 to its end; the
\* first call of `failing`, if it is made, throws
RefreshResume(dex, jup) ==
    /\ inFlight > 0
    /\ LET newTokens == fetchAndAggregateTokens(dex, jup)
           calls     == IF HasNoTokens(newTokens) THEN <<>>
                        ELSE RefreshCalls(previousTokens, newTokens, wsService,
                                          connectedClients, filterRooms, adapterRooms)
       IN  \E failing \in MayThrow(calls) :
             LET done    == Completed(calls, failing)
                 threw   == ThrowIndex(calls, failing) # 0
                 atStore == NewTokensAtStore(done, newTokens, filterRooms, adapterRooms)
                 outcome == IF HasNoTokens(newTokens) THEN "empty"
                            ELSE IF threw THEN "broadcastThrew" ELSE "stored"
             IN  /\ previousTokens' = IF HasNoTokens(newTokens) THEN previousTokens
                                      ELSE StoredAfterCycle(previousTokens, atStore, threw)
                 /\ isRunning' = LockAfterCycle(outcome)
                 /\ delivered' = EmitsOf(done)
                 /\ last' = [op |-> "refresh", outcome |-> outcome,
                             prev |-> previousTokens, merged |-> newTokens,
                             ws |-> wsService, clients |-> connectedClients,
                             attempted |-> FnsOf(Attempted(calls, failing)),
                             thrower |-> IF threw THEN failing ELSE "none",
                             settled |-> RefreshSettles(threw)]
    /\ inFlight' = inFlight - 1
    /\ UNCHANGED <<wsService, cronJob, wsVars, cacheList, pureVars>>

\* fetchAndAggregateTokens() rejected: catch, finally
RefreshFetchThrows ==
    /\ inFlight > 0
    /\ previousTokens' = previousTokens
    /\ isRunning' = LockAfterCycle("fetchThrew")
    /\ inFlight' = inFlight - 1
    /\ delivered' = <<>>
    /\ last' = [op |-> "refresh", outcome |-> "fetchThrew",
                prev |-> previousTokens, merged |-> <<>>,
                ws |-> wsService, clients |-> connectedClients,
                attempted |-> <<>>, thrower |-> "none",
                settled |-> RefreshSettles(TRUE)]
    /\ UNCHANGED <<wsService, cronJob, wsVars, cacheList, pureVars>>

\* ---- WebSocketService ------------------------------------------------------

\* io.on('connection'): a socket with a fresh id
Connect(s) ==
    /\ s \notin connectedClients
    /\ \A i \in 1..Len(pendingSubs) : pendingSubs[i].socket # s
    /\ connectedClients' = connectedClients \cup {s}
    /\ unsubAcked' = unsubAcked \ {s}
    /\ delivered' = <<Emit("connected", "socket", NoRoom, {s}, <<>>, Num(0))>>
    /\ last' = [op |-> "connect", socket |-> s]
    /\ UNCHANGED <<jobVars, filterRooms, socketFilterRooms, adapterRooms,
                   pendingSubs, cacheList, pureVars>>

\* a clean-up that deletes the criterion of every room the socket was in
EmptiedRoomsAll(recorded, rooms) == recorded

\* the rooms whose criterion a leaving socket's handler deletes: those of its
\* recorded rooms that have no member left
EmptiedRooms(recorded, rooms) ==
    {r \in recorded : Cardinality(RoomMembers(rooms, r)) = 0}

RECURSIVE DeleteRooms(_, _)
DeleteRooms(fr, rs) ==
    IF rs = {} THEN fr
    ELSE LET r == CHOOSE x \in rs : TRUE
         IN  DeleteRooms(FilterRoomsDelete(fr, r), rs \ {r})

\* this.socketFilterRooms.delete(socket.id)
MapDelete(m, key) == [x \in (DOMAIN m) \ {key} |-> m[x]]

\* the filter-room clean-up shared by the disconnect and unsubscribe:filters
\* handlers; `rooms` is the adapter's membership when the handler starts
LeaveFilterRooms(s, rooms) ==
    IF s \in DOMAIN socketFilterRooms
    THEN LET recorded == socketFilterRooms[s]
             left     == rooms \ {<<r, s>> : r \in recorded}
         IN  /\ adapterRooms' = left
             /\ filterRooms' = DeleteRooms(filterRooms, EmptiedRooms(recorded, left))
             /\ socketFilterRooms' = MapDelete(socketFilterRooms, s)
    ELSE /\ adapterRooms' = rooms
         /\ UNCHANGED <<filterRooms, socketFilterRooms>>

\* socket.io removes a closing socket from every room before it emits
\* 'disconnect'
AdapterAfterClose(s) == {p \in adapterRooms : p[2] # s}

\* socket.on('disconnect')
Disconnect(s) ==
    /\ s \in connectedClients
    /\ LeaveFilterRooms(s, AdapterAfterClose(s))
    /\ connectedClients' = connectedClients \ {s}
    /\ delivered' = <<>>
    /\ last' = [op |-> "disconnect", socket |-> s]
    /\ UNCHANGED <<jobVars, pendingSubs, unsubAcked, cacheList, pureVars>>

\* socket.on('subscribe:filters') up to `await getCachedTokens()`
SubscribeFilters(s, criteria) ==
    /\ s \in connectedClients
    /\ Len(pendingSubs) < MaxPending
    /\ LET normalized == normalizeFilters(criteria)
           room       == filterRoomId(normalized)
       IN  /\ filterRooms' = IF FilterRoomsHas(filterRooms, room) THEN filterRooms
                             ELSE Append(filterRooms,
                                         [room |-> room, criteria |-> normalized])
           /\ socketFilterRooms' =
                 [x \in (DOMAIN socketFilterRooms) \cup {s} |->
                     IF x = s
                     THEN (IF s \in DOMAIN socketFilterRooms
                           THEN socketFilterRooms[s] ELSE {}) \cup {room}
                     ELSE socketFilterRooms[x]]
           /\ adapterRooms' = adapterRooms \cup {<<room, s>>}
           /\ pendingSubs' = Append(pendingSubs,
                                    [socket |-> s, normalized |-> normalized])
           /\ last' = [op |-> "subscribe:filters", socket |-> s, room |-> room,
                       raw |-> criteria]
    /\ unsubAcked' = unsubAcked \ {s}
    /\ delivered' = <<>>
    /\ UNCHANGED <<jobVars, connectedClients, cacheList, pureVars>>

\* a read under a key no entry is stored under
getCachedTokensWrongKey(cache) == <<>>

\* TokenDataService.getCachedTokens: cached?.data || []
getCachedTokens(cache) == IF cache.present THEN cache.data ELSE <<>>

\* a packet written to a socket whose connection is closed is dropped
SocketRecipients(s, clients) == {s} \cap clients

\* the subscribe:filters handler resumes with the cache's answer: the
\* one-shot slice and the acknowledgment
SubscribeResume ==
    /\ Len(pendingSubs) > 0
    /\ LET p        == Head(pendingSubs)
           tokens   == getCachedTokens(cacheList)
           filtered == applyFilters(tokens, p.normalized)
       IN  /\ delivered' = <<Emit("tokens:refresh", "socket",
                                  filterRoomId(p.normalized),
                                  SocketRecipients(p.socket, connectedClients),
                                  filtered, Num(0))>>
           /\ last' = [op |-> "subscribe:resume", socket |-> p.socket,
                       room |-> filterRoomId(p.normalized),
                       normalized |-> p.normalized]
    /\ pendingSubs' = Tail(pendingSubs)
    /\ UNCHANGED <<jobVars, connectedClients, filterRooms, socketFilterRooms,
                   adapterRooms, unsubAcked, cacheList, pureVars>>

\* socket.on('unsubscribe:filters'), acknowledged
UnsubscribeFilters(s) ==
    /\ s \in connectedClients
    /\ LeaveFilterRooms(s, adapterRooms)
    /\ unsubAcked' = unsubAcked \cup {s}
    /\ delivered' = <<>>
    /\ last' = [op |-> "unsubscribe:filters", socket |-> s]
    /\ UNCHANGED <<jobVars, connectedClients, pendingSubs, cacheList, pureVars>>

\* ---- the cache entry read by getCachedTokens ---------------------------

\* TokenDataService.getTokens({}) on a cache miss: fetch, filter, sort,
\* first page, store
CacheFill(dex, jup) ==
    /\ ~cacheList.present
    /\ LET tokens   == fetchAndAggregateTokens(dex, jup)
           filtered == filterTokens(tokens, [minVolume |-> Undef, minLiquidity |-> Undef,
                                             minQualityScore |-> Num(MinQualityScore)])
           sorted   == sortTokens(filtered, "volume", "24h")
       IN  cacheList' = [present |-> TRUE, data |-> Slice(sorted, DefaultLimit)]
    /\ delivered' = <<>>
    /\ last' = [op |-> "getTokens"]
    /\ UNCHANGED <<jobVars, wsVars, pureVars>>

\* the entry's TTL runs out
CacheExpire ==
    /\ cacheList.present
    /\ cacheList' = [present |-> FALSE, data |-> <<>>]
    /\ delivered' = <<>>
    /\ last' = [op |-> "expire"]
    /\ UNCHANGED <<jobVars, wsVars, pureVars>>

\* ---- the next-state relations ----------------------------------------------

JobNext(dexs, jups) ==
    \/ Initialize
    \/ \E trigger \in {"cron", "manual"} : RefreshCall(trigger)
    \/ \E dex \in dexs, jup \in jups : RefreshResume(dex, jup)
    \/ RefreshFetchThrows

WsNext(sockets, criterias) ==
    \/ \E s \in sockets : Connect(s)
    \/ \E s \in sockets : Disconnect(s)
    \/ \E s \in sockets, criteria \in criterias : SubscribeFilters(s, criteria)
    \/ SubscribeResume
    \/ \E s \in sockets : UnsubscribeFilters(s)

CacheNext(dexs, jups) ==
    \/ \E dex \in dexs, jup \in jups : CacheFill(dex, jup)
    \/ CacheExpire

\* the upstream answers used where the refresh loop is not the subject
FewDexOutcomes == {Rejected, Fulfilled(<<DexTok("A", 100, 100), DexTok("B", 5, 60)>>)}
FewJupOutcomes == {Rejected}

\* The whole system, with the refresh loop's inputs in full and one client.
Next ==
    \/ JobNext(DexOutcomes, JupOutcomes)
    \/ WsNext({"s1"}, RawCriteria)
    \/ CacheNext(FewDexOutcomes, FewJupOutcomes)

Spec == Init /\ [][Next]_vars

\* The whole system, with the registry's inputs in full (two clients) and
\* few upstream answers.
NextWs ==
    \/ JobNext(FewDexOutcomes, FewJupOutcomes)
    \/ WsNext(Sockets, RawCriteria)
    \/ CacheNext(FewDexOutcomes, FewJupOutcomes)

SpecWs == Init /\ [][NextWs]_vars

\* criteria objects that name the default group: every field omitted, the
\* defaults written out, and the defaults with a minimum volume of 0
OmittedCriteria ==
    [sortBy |-> "undefined", period |-> "undefined", minVolume |-> Undef,
     minLiquidity |-> Undef, limit |-> Undef]

ExplicitDefaultCriteria ==
    [sortBy |-> "volume", period |-> "24h", minVolume |-> Undef,
     minLiquidity |-> Undef, limit |-> Num(DefaultLimit)]

ZeroVolumeCriteria ==
    [sortBy |-> "volume", period |-> "24h", minVolume |-> Num(0),
     minLiquidity |-> Undef, limit |-> Num(DefaultLimit)]

JoinCriteria == {OmittedCriteria, ExplicitDefaultCriteria, ZeroVolumeCriteria}

\* The whole system, with join requests whose criteria differ in how they
\* are written.
NextJoin ==
    \/ JobNext(FewDexOutcomes, FewJupOutcomes)
    \/ WsNext(Sockets, JoinCriteria)
    \/ CacheNext(FewDexOutcomes, FewJupOutcomes)

SpecJoin == Init /\ [][NextJoin]_vars

-----------------------------------------------------------------------------
(* The refresh loop whose upstream fetch always settles *)

\* One client and the refresh loop; a fetch that was issued settles (the
\* HTTP clients time out), so a pending refresh() is resumed.
SpecRefresh ==
    /\ Init
    /\ [][\/ JobNext(DexOutcomes, FewJupOutcomes)
          \/ Connect("s1")
          \/ Disconnect("s1")]_vars
    /\ WF_vars((\E dex \in DexOutcomes, jup \in FewJupOutcomes :
                    RefreshResume(dex, jup))
               \/ RefreshFetchThrows)

-----------------------------------------------------------------------------
(* Token rooms and broadcastTokenUpdate *)

\* a broadcast that addresses the token's room only
broadcastTokenUpdateRoomOnly(token, clients, rooms) ==
    <<Emit("token:update", "room", TokenRoomId(token.token_address),
           RoomRecipients(rooms, TokenRoomId(token.token_address)), <<token>>, Num(0))>>

\* broadcastTokenUpdate(token): io.emit, then io.to(`token:<address>`).emit
broadcastTokenUpdate(token, clients, rooms) ==
    <<Emit("token:update", "all", NoRoom, clients, <<token>>, Num(0)),
      Emit("token:update", "room", TokenRoomId(token.token_address),
           RoomRecipients(rooms, TokenRoomId(token.token_address)), <<token>>, Num(0))>>

\* socket.on('subscribe:token')
SubscribeToken(s, tokenAddress) ==
    /\ s \in connectedClients
    /\ adapterRooms' = adapterRooms \cup {<<TokenRoomId(tokenAddress), s>>}
    /\ delivered' = <<>>
    /\ last' = [op |-> "subscribe:token", socket |-> s, address |-> tokenAddress]
    /\ UNCHANGED <<jobVars, connectedClients, filterRooms, socketFilterRooms,
                   pendingSubs, unsubAcked, cacheList, pureVars>>

\* socket.on('unsubscribe:token')
UnsubscribeToken(s, tokenAddress) ==
    /\ s \in connectedClients
    /\ adapterRooms' = adapterRooms \ {<<TokenRoomId(tokenAddress), s>>}
    /\ delivered' = <<>>
    /\ last' = [op |-> "unsubscribe:token", socket |-> s, address |-> tokenAddress]
    /\ UNCHANGED <<jobVars, connectedClients, filterRooms, socketFilterRooms,
                   pendingSubs, unsubAcked, cacheList, pureVars>>

\* one call of broadcastTokenUpdate; `left` notes the socket and address of
\* an unsubscribe:token handled just before it
TokenUpdate(token) ==
    /\ delivered' = broadcastTokenUpdate(token, connectedClients, adapterRooms)
    /\ last' = [op |-> "tokenUpdate", address |-> token.token_address,
                left |-> IF last.op = "unsubscribe:token"
                         THEN <<last.socket, last.address>> ELSE <<>>]
    /\ UNCHANGED <<jobVars, wsVars, cacheList, pureVars>>

\* Two clients, token rooms of an address spelt in two letter cases, and
\* token updates.
SpecToken ==
    Init /\ [][\/ \E s \in Sockets : \/ Connect(s)
                                     \/ Disconnect(s)
                                     \/ \E a \in {"A", "a"} : \/ SubscribeToken(s, a)
                                                              \/ UnsubscribeToken(s, a)
               \/ \E a \in {"A", "a"} : TokenUpdate(DexTok(a, 100, 100))]_vars

-----------------------------------------------------------------------------
(* DataRefreshJob.stop *)

\* while (this.isRunning && attempts < 50)
StopPollLimit == 50

\* stop(): cancel the scheduled task, then test the loop condition for the
\* first time; pstage is the position of stop(), pout its `attempts`
StopCall ==
    /\ pstage = "idle"
    /\ wsService
    /\ cronJob' = FALSE
    /\ pout' = 0
    /\ pstage' = IF isRunning /\ 0 < StopPollLimit THEN "polling" ELSE "stopped"
    /\ delivered' = <<>>
    /\ last' = [op |-> "stop"]
    /\ UNCHANGED <<previousTokens, isRunning, wsService, inFlight, wsVars,
                   cacheList, pin>>

\* a 100 ms timer of the wait loop fires: attempts++, loop condition again
StopPoll ==
    /\ pstage = "polling"
    /\ pout' = pout + 1
    /\ pstage' = IF isRunning /\ pout + 1 < StopPollLimit THEN "polling"
                ELSE "stopped"
    /\ delivered' = <<>>
    /\ last' = [op |-> "stopPoll"]
    /\ UNCHANGED <<jobVars, wsVars, cacheList, pin>>

\* The refresh loop driven by its schedule alone, one client, and a stop().
SpecStop ==
    Init /\ [][\/ (pstage = "idle" /\ Initialize)
               \/ RefreshCall("cron")
               \/ \E dex \in FewDexOutcomes, jup \in FewJupOutcomes :
                     RefreshResume(dex, jup)
               \/ RefreshFetchThrows
               \/ Connect("s1")
               \/ StopCall
               \/ StopPoll]_vars

-----------------------------------------------------------------------------
(* detectSignificantChanges, and the alert calls of refresh(), as functions *)
(* of two snapshots and the configured thresholds                          *)

MaxSnapshotLen == 2

\* priceThreshold, volumeThreshold: the defaults, and what the environment
\* variables WS_PRICE_CHANGE_THRESHOLD / WS_VOLUME_SPIKE_THRESHOLD may set
DetectThresholds ==
    {<<PriceChangeThreshold, VolumeSpikeThreshold>>, <<0, 0>>, <<-10, -10>>}

\* the lists of up to n records with pairwise different lower-cased addresses
DistinctSeqs(S, n) ==
    {q \in UNION {[1..k -> S] : k \in 0..n} :
        \A i, j \in 1..Len(q) :
            Lower(q[i].token_address) = Lower(q[j].token_address) => i = j}

\* a Snapshot is a result of mergeTokens
SnapshotsOf(addresses, prices, volumes) ==
    {mergeTokens(<<q>>) :
        q \in DistinctSeqs({DexTok(a, p, v) : a \in addresses, p \in prices,
                                              v \in volumes}, MaxSnapshotLen)}

\* old and new snapshots with addresses that match up to letter case or not
\* at all, old prices and volumes of zero, and price moves of -10%, 4% and 5%
DetectInputs ==
    [old : SnapshotsOf({"A", "B"}, {0, 100}, {0, 100}),
     new : SnapshotsOf({"a", "B", "C"}, {90, 104, 105}, {0, 150}),
     thresholds : DetectThresholds]

InitDetect ==
    /\ InitJob /\ InitWs
    /\ pin \in DetectInputs
    /\ pout = <<>>
    /\ pstage = "in"

\* refresh() lines 76-105 for previousTokens = pin.old, newTokens = pin.new,
\* with the broadcaster attached and no client connected
ApplyDetect ==
    /\ pstage = "in"
    /\ pout' = [changes |-> detectSignificantChanges(pin.old, pin.new,
                                pin.thresholds[1], pin.thresholds[2]),
                calls   |-> RefreshCallsWith(pin.old, pin.new, TRUE, {}, <<>>, {},
                                pin.thresholds[1], pin.thresholds[2])]
    /\ pstage' = "out"
    /\ UNCHANGED <<jobVars, wsVars, cacheList, last, delivered, pin>>

SpecDetect == InitDetect /\ [][ApplyDetect]_vars

-----------------------------------------------------------------------------
(* mergeTokens as a function of its input *)

MaxMergeLen == 3

\* a token whose name, ticker and metrics are all fixed by v, each metric by
\* another rule
ValTok(addr, src, v) ==
    MkToken(addr, <<src, v>>, src, Num(v), v + 3, v, 10 * v, v - 1, Num(v), Undef, v)

\* records of two addresses, one spelt in two letter cases, from two known
\* sources and one the priority table does not list
MergeTokenDomain ==
    {ValTok(addr, src, v) : addr \in {"A", "a", "B"},
                            src \in {"dexscreener", "jupiter", "unknown"},
                            v \in {1, 2}}

SeqsUpTo(S, n) == UNION {[1..k -> S] : k \in 0..n}

\* tokenArrays: one list per upstream source, MaxMergeLen tokens in all
MergeInputs ==
    {x \in SeqsUpTo(MergeTokenDomain, MaxMergeLen) \X SeqsUpTo(MergeTokenDomain, 1) :
        Len(x[1]) + Len(x[2]) <= MaxMergeLen}

InitMerge ==
    /\ InitJob /\ InitWs
    /\ pin \in MergeInputs
    /\ pout = <<>>
    /\ pstage = "in"

ApplyMerge ==
    /\ pstage = "in"
    /\ pout' = mergeTokens(pin)
    /\ pstage' = "out"
    /\ UNCHANGED <<jobVars, wsVars, cacheList, last, delivered, pin>>

SpecMerge == InitMerge /\ [][ApplyMerge]_vars

-----------------------------------------------------------------------------
(* calculateQualityScore and one merge step as functions of two records *)

\* the records of one address a source can deliver: each input of the score
\* present or absent, the 24h change undefined, zero or non-zero
ScoreTokens(addr, src) ==
    {MkToken(addr, src, src, price, mcap, vol, liq, tx, c1h, c24h, 1) :
        price \in {Num(0), Num(2)}, mcap \in {0, 1}, vol \in {0, 1},
        liq \in {0, 1}, tx \in {0, 1}, c1h \in {Undef, Num(0)},
        c24h \in {Undef, Num(0), Num(4)}}

InitScore ==
    /\ InitJob /\ InitWs
    /\ pin \in ScoreTokens("A", "dexscreener") \X ScoreTokens("a", "jupiter")
    /\ pout = <<>>
    /\ pstage = "in"

\* score each record, then merge the two (mergeTokens scores the first record
\* on insertion and rescores in mergeDuplicateTokens)
ApplyScore ==
    /\ pstage = "in"
    /\ pout' = [scores |-> <<calculateQualityScore(pin[1]),
                             calculateQualityScore(pin[2])>>,
                merged |-> mergeTokens(<<<<pin[1]>>, <<pin[2]>>>>)]
    /\ pstage' = "out"
    /\ UNCHANGED <<jobVars, wsVars, cacheList, last, delivered, pin>>

SpecScore == InitScore /\ [][ApplyScore]_vars

-----------------------------------------------------------------------------
(* fetchAndAggregateTokens with the two upstream calls settling in any order *)

\* results of a fetch that puts each result where it arrived
ResultSlotByArrival(source, k) == k

\* Promise.allSettled: the result of the promise at index `source` of the
\* argument goes to index `source` of the results, whichever settles k-th
ResultSlot(source, k) == source

\* pin: what the two calls will settle with (1 = DexScreener, 2 = Jupiter)
\* and the order in which they settle; pout: the results array being filled
InitFetch ==
    /\ InitJob /\ InitWs
    /\ pin \in [outcomes : DexOutcomes \X
                            (JupOutcomes \cup
                                {Fulfilled(<<>>),
                                 Fulfilled(<<JupTok("a", 30), JupTok("b", 50)>>)}),
                 order : {<<1, 2>>, <<2, 1>>}]
    /\ pout = [results |-> [i \in 1..2 |-> [ok |-> FALSE, value |-> <<>>,
                                            pending |-> TRUE]],
               settled |-> 0]
    /\ pstage = "in"

\* one upstream call settles
SettleFetch ==
    /\ pstage = "in"
    /\ pout.settled < 2
    /\ LET k      == pout.settled + 1
           source == pin.order[k]
       IN  pout' = [results |-> [pout.results EXCEPT ![ResultSlot(source, k)] =
                                     pin.outcomes[source]],
                    settled |-> k]
    /\ UNCHANGED <<jobVars, wsVars, cacheList, last, delivered, pin, pstage>>

\* allSettled resolves: results.forEach collects the fulfilled values in
\* index order and mergeTokens merges them
FinishFetch ==
    /\ pstage = "in"
    /\ pout.settled = 2
    /\ pout' = [results |-> pout.results,
                merged  |-> mergeTokens(SettledArrays(pout.results))]
    /\ pstage' = "out"
    /\ UNCHANGED <<jobVars, wsVars, cacheList, last, delivered, pin>>

SpecFetch == InitFetch /\ [][SettleFetch \/ FinishFetch]_vars

-----------------------------------------------------------------------------
(* sortTokens and filterTokens as functions of their input *)

MaxSortLen == 3

\* AggregatedTokens to sort and filter: the i-th record of a list is named i;
\* its metrics are one of four profiles with ties, negative changes and
\* absent 24h and 7d changes
SortTokens(i) ==
    {Spread(MkToken("A", i, "dexscreener", Num(1), p[2], p[1], p[3], 1, p[4], p[5], 1),
            [price_7d_change |-> p[6], sources |-> <<"dexscreener">>,
             data_quality_score |-> p[7]]) :
        p \in {<<1, 2, 0, Num(0),  Undef,   Undef,    30>>,
               <<2, 1, 5, Num(-1), Num(0),  Num(50),  80>>,
               <<2, 2, 5, Num(3),  Num(-2), Num(-10), 50>>,
               <<0, 0, 1, Num(0),  Num(4),  Num(0),   100>>}}

InitSort ==
    /\ InitJob /\ InitWs
    /\ \E n \in 0..MaxSortLen :
         pin \in [tokens  : {q \in [1..n -> UNION {SortTokens(i) : i \in 1..n}] :
                                \A i \in 1..n : q[i] \in SortTokens(i)},
                  sortBy  : SortOptions,
                  period  : TimePeriods,
                  filters : [minVolume : {Undef, Num(0), Num(2)},
                             minLiquidity : {Undef, Num(1)},
                             minQualityScore : {Undef, Num(50)}]]
    /\ pout = <<>>
    /\ pstage = "in"

\* one call of sortTokens and one of filterTokens on a list; `tokens` is the
\* caller's array after sortTokens returned: Array.prototype.sort orders the
\* array it is called on and returns that same array
ApplySort ==
    /\ pstage = "in"
    /\ pout' = [sorted   |-> sortTokens(pin.tokens, pin.sortBy, pin.period),
                tokens   |-> sortTokens(pin.tokens, pin.sortBy, pin.period),
                filtered |-> filterTokens(pin.tokens, pin.filters)]
    /\ pstage' = "out"
    /\ UNCHANGED <<jobVars, wsVars, cacheList, last, delivered, pin>>

SpecSort == InitSort /\ [][ApplySort]_vars

-----------------------------------------------------------------------------
(* TokenDataService.getTokens: list queries, their pages and the cache *)

\* CONSTANTS.DEFAULT_PAGE_LIMIT / MAX_PAGE_LIMIT
DefaultPageLimit == 20
MaxPageLimit == 100

\* validateLimit: the limit is a number or undefined
validateLimit(limit) ==
    IF ~Truthy(limit) THEN DefaultPageLimit
    ELSE LET parsed == limit.n \div limit.d
         IN  IF limit.k # "num" \/ parsed < 1 THEN DefaultPageLimit
             ELSE Min(parsed, MaxPageLimit)

\* an encoding that loses the offset it is given
encodeCursorLosesOffset(data) == [b64json |-> TRUE, value |-> [offset |-> Num(0)]]

\* A cursor string is kept as what it decodes to: b64json tells whether the
\* base64-decoded text parses as JSON, value is the parsed value.
\* encodeCursor: base64 of JSON.stringify(data); the timestamp it also
\* carries is never read and is left out
encodeCursor(data) == [b64json |-> TRUE, value |-> data]

\* decodeCursor: JSON.parse of the base64-decoded text, returned unvalidated;
\* throws 'Invalid cursor format' when the text does not parse
decodeCursor(cursor) ==
    IF cursor.b64json THEN [threw |-> FALSE, value |-> cursor.value]
    ELSE [threw |-> TRUE, value |-> EmptyMap]

\* params.f, undefined when the query does not carry f
Param(params, f) == IF f \in DOMAIN params THEN params[f] ELSE Undef

\* generateCacheKey: sort key, period and the two thresholds with their
\* defaults; limit and cursor are not part of the key
generateCacheKey(params) ==
    <<"tokens:list",
      IF "sortBy" \in DOMAIN params THEN params.sortBy ELSE "volume",
      IF "period" \in DOMAIN params THEN params.period ELSE "24h",
      OrZero(Param(params, "minVolume")),
      OrZero(Param(params, "minLiquidity"))>>

\* paginateResults(tokens, cursor, limit); hasCursor is `if (cursor)`
paginateResults(tokens, hasCursor, cursor, limit) ==
    LET decoded == decodeCursor(cursor)
        offset  == IF ~hasCursor \/ decoded.threw THEN Num(0)
                   ELSE IF "offset" \in DOMAIN decoded.value
                        THEN decoded.value.offset
                        ELSE Undef
        end     == IF offset.k = "num" THEN Num(offset.n + limit) ELSE NaN
        hasMore == NumGt(Num(Len(tokens)), end)
    IN  [data |-> SubSeq(tokens, SliceEnd(offset) + 1,
                         Min(Len(tokens), SliceEnd(end))),
         pagination |-> [nextCursor |-> IF hasMore
                                        THEN encodeCursor([offset |-> end])
                                        ELSE [null |-> TRUE],
                         hasMore    |-> hasMore,
                         total      |-> Len(tokens)]]

\* pin: what the upstream sources answer; pout: the cache (key -> response),
\* and the last query with its response
InitQuery ==
    /\ InitJob /\ InitWs
    /\ pin \in [dex : {Rejected,
                        Fulfilled(<<DexTok("A", 100, 100)>>),
                        Fulfilled(<<DexTok("A", 100, 100), DexTok("B", 5, 60),
                                    DexTok("C", 7, 80)>>)},
                 jup : JupOutcomes]
    /\ pout = [cache |-> EmptyMap, params |-> EmptyMap, response |-> EmptyMap,
               fetched |-> FALSE]
    /\ pstage = "idle"

\* getTokens(params)
\* a store that keeps no response without records
CacheSetSkipsEmpty(cache, key, value) ==
    IF value.data = <<>> THEN cache
    ELSE [k \in DOMAIN cache \cup {key} |-> IF k = key THEN value ELSE cache[k]]

\* cacheService.set(key, value, ttl): the entry is written whatever the value
CacheSet(cache, key, value) ==
    [k \in DOMAIN cache \cup {key} |-> IF k = key THEN value ELSE cache[k]]

GetTokens(params) ==
    LET limit    == validateLimit(Param(params, "limit"))
        sortBy   == IF "sortBy" \in DOMAIN params THEN params.sortBy ELSE "volume"
        period   == IF "period" \in DOMAIN params THEN params.period ELSE "24h"
        cacheKey == generateCacheKey(params)
        hit      == cacheKey \in DOMAIN pout.cache
        tokens   == fetchAndAggregateTokens(pin.dex, pin.jup)
        filtered == filterTokens(tokens,
                                 [minVolume       |-> Param(params, "minVolume"),
                                  minLiquidity    |-> Param(params, "minLiquidity"),
                                  minQualityScore |-> Num(MinQualityScore)])
        sorted   == sortTokens(filtered, sortBy, period)
        page     == paginateResults(sorted, "cursor" \in DOMAIN params,
                                    IF "cursor" \in DOMAIN params THEN params.cursor
                                    ELSE [b64json |-> FALSE],
                                    limit)
        fresh    == [success |-> TRUE, data |-> page.data,
                     pagination |-> page.pagination, meta |-> [cached |-> FALSE]]
    IN  /\ pstage = "idle"
        /\ pout' = [cache    |-> IF hit THEN pout.cache
                                 ELSE CacheSet(pout.cache, cacheKey, fresh),
                    params   |-> params,
                    response |-> IF hit
                                 THEN [pout.cache[cacheKey] EXCEPT !.meta.cached = TRUE]
                                 ELSE fresh,
                    fetched  |-> ~hit]
        /\ UNCHANGED <<jobVars, wsVars, cacheList, last, delivered, pin, pstage>>

\* the TTL of a cache entry runs out
ExpireEntry ==
    /\ pstage = "idle"
    /\ \E key \in DOMAIN pout.cache :
          pout' = [pout EXCEPT !.cache = [k \in DOMAIN pout.cache \ {key} |->
                                            pout.cache[k]]]
    /\ UNCHANGED <<jobVars, wsVars, cacheList, last, delivered, pin, pstage>>

\* the queries clients send: limit, cursor and minVolume each absent or given
QueryParams ==
    {Spread(Spread(l, c), v) :
        l \in {EmptyMap, [limit |-> Num(1)], [limit |-> Num(2)], [limit |-> Num(999999)]},
        c \in {EmptyMap,
               [cursor |-> encodeCursor([offset |-> Num(1)])],
               [cursor |-> encodeCursor([offset |-> Num(2)])],
               [cursor |-> [b64json |-> FALSE]],
               [cursor |-> [b64json |-> TRUE, value |-> EmptyMap]]},
        v \in {EmptyMap, [minVolume |-> Num(80)]}}

SpecQuery == InitQuery /\ [][(\E params \in QueryParams : GetTokens(params))
                             \/ ExpireEntry]_vars

-----------------------------------------------------------------------------
(* normalizeFilters as a function of the criterion a client submits *)

\* criteria whose fields are missing, of the wrong type, out of range or
\* valid; a value of kind "string" is one whose typeof is not 'number'
InitNormalize ==
    /\ InitJob /\ InitWs
    /\ pin \in [sortBy       : {"undefined", "bogus", "liquidity"},
                 period       : {"undefined", "bogus", "7d"},
                 minVolume    : {Undef, [k |-> "string", n |-> 5, d |-> 1], Num(5)},
                 minLiquidity : {Undef, Num(0)},
                 limit        : {Undef, [k |-> "string", n |-> 7, d |-> 1], Num(0),
                                 Num(-3), Rat(1, 2), Num(7), Num(100), Num(150)}]
    /\ pout = <<>>
    /\ pstage = "in"

ApplyNormalize ==
    /\ pstage = "in"
    /\ pout' = normalizeFilters(pin)
    /\ pstage' = "out"
    /\ UNCHANGED <<jobVars, wsVars, cacheList, last, delivered, pin>>

SpecNormalize == InitNormalize /\ [][ApplyNormalize]_vars

-----------------------------------------------------------------------------
(* retryWithBackoff *)

MaxRetryAttempts == 4

\* a test that gives up one attempt early
IsLastAttemptOneEarly(attempt, maxAttempts) == attempt + 1 >= maxAttempts

\* if (attempt === maxAttempts)
IsLastAttempt(attempt, maxAttempts) == attempt = maxAttempts

\* pin: the options and what fn() settles with at each invocation (it
\* fulfils with "value" or rejects with the error numbered as the
\* invocation); pout: the loop variable, the invocations of fn and of
\* onRetry so far, and how the returned promise settled
InitRetry ==
    /\ InitJob /\ InitWs
    /\ \E m \in 1..MaxRetryAttempts :
         pin \in [maxAttempts : {m}, fulfils : [1..m -> BOOLEAN],
                  onRetry : BOOLEAN]
    /\ pout = [attempt |-> 1, calls |-> 0, lastError |-> 0, retries |-> <<>>,
               result |-> [settled |-> "pending"]]
    /\ pstage = "calling"

\* one pass of the loop body up to its await or its exit: `return await
\* fn()`, or the catch block
RetryAttempt ==
    /\ pstage = "calling"
    /\ pout.attempt <= pin.maxAttempts
    /\ LET attempt == pout.attempt
           calls   == pout.calls + 1
       IN  IF pin.fulfils[calls]
           THEN /\ pout' = [pout EXCEPT !.calls = calls,
                                        !.result = [settled |-> "fulfilled",
                                                    value |-> "value"]]
                /\ pstage' = "done"
           ELSE IF IsLastAttempt(attempt, pin.maxAttempts)
           THEN /\ pout' = [pout EXCEPT !.calls = calls, !.lastError = calls,
                                        !.result = [settled |-> "rejected",
                                                    error |-> calls]]
                /\ pstage' = "done"
           ELSE /\ pout' = [pout EXCEPT !.calls = calls, !.lastError = calls,
                                        !.retries =
                                            IF pin.onRetry
                                            THEN Append(@, <<attempt, calls>>)
                                            ELSE @]
                /\ pstage' = "waiting"
    /\ UNCHANGED <<jobVars, wsVars, cacheList, last, delivered, pin>>

\* the backoff timer fires: attempt++, and the loop test; past the loop is
\* `throw lastError`
RetryTimer ==
    /\ pstage = "waiting"
    /\ IF pout.attempt + 1 <= pin.maxAttempts
       THEN /\ pout' = [pout EXCEPT !.attempt = @ + 1]
            /\ pstage' = "calling"
       ELSE /\ pout' = [pout EXCEPT !.attempt = @ + 1,
                                    !.result = [settled |-> "rejected",
                                                error |-> pout.lastError]]
            /\ pstage' = "done"
    /\ UNCHANGED <<jobVars, wsVars, cacheList, last, delivered, pin>>

\* every promise of fn settles and every timer fires
SpecRetry ==
    /\ InitRetry
    /\ [][RetryAttempt \/ RetryTimer]_vars
    /\ WF_vars(RetryAttempt \/ RetryTimer)

-----------------------------------------------------------------------------
(* The claims *)

RECURSIVE SumOver(_, _, _)
SumOver(tokens, field, key) ==
    IF tokens = <<>> THEN 0
    ELSE (IF Lower(Head(tokens).token_address) = key THEN Head(tokens)[field] ELSE 0)
         + SumOver(Tail(tokens), field, key)

CountOver(tokens, key) ==
    Cardinality({i \in 1..Len(tokens) : Lower(tokens[i].token_address) = key})

\* C1: at most one refresh execution is in flight at any time, and a
\* refresh() call made while one is in flight returns without issuing an
\* upstream fetch.
C1_OneRefreshInFlight ==
    /\ inFlight <= 1
    /\ (last.op = "refreshCall" /\ last.inFlightBefore > 0)
          => (last.skipped /\ inFlight = last.inFlightBefore)

\* a refresh() call arrived while another execution was awaiting its fetch
C1_Witness ==
    /\ last.op = "refreshCall"
    /\ last.inFlightBefore = 1
    /\ last.skipped

\* C2: mergeTokens returns exactly one record per distinct lower-cased
\* address of its input; the record's sources list is as long as the number
\* of input records with that address, and its volume, liquidity and
\* transaction count are the sums of theirs.
C2_MergeOnePerAddress ==
    pstage = "out" =>
        LET all  == Flat(pin)
            keys == {Lower(all[i].token_address) : i \in 1..Len(all)}
        IN  /\ Len(pout) = Cardinality(keys)
            /\ \A key \in keys :
                  \E i \in 1..Len(pout) :
                     /\ Lower(pout[i].token_address) = key
                     /\ \A j \in 1..Len(pout) :
                           Lower(pout[j].token_address) = key => j = i
                     /\ Len(pout[i].sources) = CountOver(all, key)
                     /\ pout[i].volume_sol = SumOver(all, "volume_sol", key)
                     /\ pout[i].liquidity_sol = SumOver(all, "liquidity_sol", key)
                     /\ pout[i].transaction_count = SumOver(all, "transaction_count", key)

\* three records of one token, written in both cases and coming from both
\* lists, were merged into one
C2_Witness ==
    /\ pstage = "out"
    /\ Len(pin[1]) = 2 /\ Len(pin[2]) = 1
    /\ pin[1][1].token_address = "A"
    /\ pin[1][2].token_address = "a"
    /\ pin[2][1].token_address = "a"
    /\ Len(pout) = 1
    /\ Len(pout[1].sources) = 3

\* ---- observations of the last refresh cycle -----------------------------

CycleEnded == last.op = "refresh"

InSeq(x, seq) == \E i \in 1..Len(seq) : seq[i] = x

EmitsOfEvent(event) ==
    LET is(e) == e.event = event IN SelectSeq(delivered, is)

PayloadTokens(emits) == [i \in 1..Len(emits) |-> emits[i].tokens[1]]

\* a tokens:refresh slice computed from a group criterion: the per-group
\* broadcast's and the one-shot slice sent on join
IsGroupPayload(e) == e.event = "tokens:refresh" /\ e.scope \in {"room", "socket"}

\* C3: a refresh cycle that obtains no data (empty merged result, or the
\* fetch-and-merge step throws) leaves the stored Snapshot unchanged, emits
\* nothing, and refresh() resolves.
C3_NoDataCycleChangesNothing ==
    (CycleEnded /\ (Len(last.merged) = 0 \/ last.outcome = "fetchThrew"))
        => /\ previousTokens = last.prev
           /\ delivered = <<>>
           /\ last.attempted = <<>>
           /\ last.settled = "resolved"

\* an empty result arrived while a Snapshot was stored, the broadcaster
\* attached and a client connected
C3_Witness ==
    /\ CycleEnded
    /\ last.outcome = "empty"
    /\ Len(last.merged) = 0
    /\ Len(previousTokens) > 0
    /\ last.ws
    /\ last.clients # {}

C6_Original ==
    (CycleEnded /\ Len(last.merged) > 0) => previousTokens = last.merged

\* C7: the stored Snapshot changes only at the end of a successful refresh
\* cycle, and then to exactly the merged result of that cycle: no broadcast,
\* slice computation, subscription event, skipped or failed refresh changes
\* or reorders it.
C7_SnapshotOnlyReplaced ==
    [][previousTokens' # previousTokens
         => /\ last'.op = "refresh"
            /\ last'.outcome = "stored"
            /\ last'.prev = previousTokens
            /\ previousTokens' = last'.merged]_vars

\* a cycle's per-group broadcast sent a slice whose order differs from the
\* merged result's, and the merged result was stored as it was
C7_Witness ==
    /\ CycleEnded
    /\ last.outcome = "stored"
    /\ previousTokens = last.merged
    /\ \E i \in 1..Len(delivered) :
          /\ delivered[i].scope = "room"
          /\ Len(delivered[i].tokens) > 1
          /\ delivered[i].tokens[1] # last.merged[1]

\* C8: a slice computed for a filter group by the per-group broadcast goes
\* only to connections that are members of that group: the registry records
\* the group for each recipient and the recipient is in the group's room.
C8_GroupSliceOnlyToMembers ==
    \A i \in 1..Len(delivered) :
        delivered[i].scope = "room"
            => \A s \in delivered[i].to :
                  /\ s \in connectedClients
                  /\ s \in DOMAIN socketFilterRooms
                  /\ delivered[i].room \in socketFilterRooms[s]
                  /\ <<delivered[i].room, s>> \in adapterRooms

\* two groups got their slices in one broadcast, each slice going to the
\* one client that is in that group only
C8_Witness ==
    \E i, j \in 1..Len(delivered) :
        /\ delivered[i].scope = "room" /\ delivered[j].scope = "room"
        /\ delivered[i].to = {"s1"}
        /\ delivered[j].to = {"s2"}
        /\ delivered[i].room # delivered[j].room

\* C9: once a connection's unsubscribe:filters has been acknowledged it
\* receives no filter-group payload until it joins a group again.
C9_Original ==
    \A i \in 1..Len(delivered) :
        IsGroupPayload(delivered[i]) => delivered[i].to \cap unsubAcked = {}

\* the rooms some socket is in or some criterion is registered for
KnownRooms == RegisteredRooms(filterRooms) \cup {p[1] : p \in adapterRooms}

RecordedRooms(s) == IF s \in DOMAIN socketFilterRooms THEN socketFilterRooms[s] ELSE {}

\* C10: after every connection event a group's criterion is registered if
\* and only if the group has a member, each connection's recorded membership
\* is the set of groups it is in, and a disconnected connection has no
\* membership record.
C10_RegistryMatchesMembership ==
    /\ \A room \in KnownRooms :
          FilterRoomsHas(filterRooms, room) <=> RoomMembers(adapterRooms, room) # {}
    /\ \A i, j \in 1..Len(filterRooms) :
          filterRooms[i].room = filterRooms[j].room => i = j
    /\ \A s \in Sockets :
          RecordedRooms(s) = {room \in KnownRooms : <<room, s>> \in adapterRooms}
    /\ \A s \in Sockets : s \notin connectedClients => s \notin DOMAIN socketFilterRooms

\* a member of a group disconnected and the group kept its criterion for the
\* member that remains
C10_Witness ==
    /\ last.op = "disconnect"
    /\ last.socket = "s1"
    /\ "s2" \in connectedClients
    /\ Len(filterRooms) = 1
    /\ RoomMembers(adapterRooms, filterRooms[1].room) = {"s2"}

\* ---- filter groups: naming and slices ----------------------------------

JoinHandled == last.op = "subscribe:filters"

StoredCriteria(room) ==
    {filterRooms[i].criteria : i \in {j \in 1..Len(filterRooms) : filterRooms[j].room = room}}

\* C11: two join requests that map to the same group name carry identical
\* normalized criteria: after a join is handled, the criterion stored for
\* the group is the normalized criterion of the request just handled.
C11_Original ==
    JoinHandled => StoredCriteria(last.room) = {normalizeFilters(last.raw)}

\* the name of the group of the defaults: sort volume, period 24h, limit 20
DefaultRoom == <<"filters", "volume", "24h", Num(0), Num(0), Num(20)>>

RoomEmits == LET isRoom(e) == e.scope = "room" IN SelectSeq(delivered, isRoom)

\* C12: a join that omits every field and a join that states the defaults
\* (sort volume, period 24h, limit 20) are placed in the same group; a group
\* holds a single stored criterion and gets a single slice per broadcast.
C12_SameValuesSameGroup ==
    /\ (JoinHandled /\ last.raw \in {OmittedCriteria, ExplicitDefaultCriteria})
          => /\ last.room = DefaultRoom
             /\ <<DefaultRoom, last.socket>> \in adapterRooms
             /\ DefaultRoom \in socketFilterRooms[last.socket]
    /\ \A room \in RegisteredRooms(filterRooms) :
          Cardinality({i \in 1..Len(filterRooms) : filterRooms[i].room = room}) = 1
    /\ \A i, j \in 1..Len(RoomEmits) :
          RoomEmits[i].room = RoomEmits[j].room => i = j

\* a request that states the defaults joined the group a request that
\* omitted them had registered, and the group has one criterion
C12_Witness ==
    /\ JoinHandled
    /\ last.raw = ExplicitDefaultCriteria
    /\ last.socket = "s2"
    /\ <<DefaultRoom, "s1">> \in adapterRooms
    /\ Len(filterRooms) = 1
    /\ filterRooms[1].criteria = normalizeFilters(OmittedCriteria)

\* value >= threshold, an absent threshold imposing no constraint
AtLeast(value, threshold) ==
    threshold.k = "undef" \/ NumGe(Num(value), threshold)

MeetsThresholds(t, c) ==
    AtLeast(t.volume_sol, c.minVolume) /\ AtLeast(t.liquidity_sol, c.minLiquidity)

MeetsQualityBar(t) == t.data_quality_score >= MinQualityScore

\* S is `eligible` ordered descending by the sort key of criterion c and cut
\* to the first c.limit records
IsOrderedCut(S, eligible, c) ==
    LET key(t) == SortKey(t, c.sortBy, c.period)
    IN  /\ \A i \in 1..Len(S) : InSeq(S[i], eligible)
        /\ \A i, j \in 1..Len(S) : S[i] = S[j] => i = j
        /\ Len(S) = Min(Len(eligible), c.limit.n \div c.limit.d)
        /\ \A i, j \in 1..Len(S) : i < j => ~NumGt(key(S[j]), key(S[i]))
        /\ \A k \in 1..Len(eligible) :
              ~InSeq(eligible[k], S)
                 => \A i \in 1..Len(S) : ~NumGt(key(eligible[k]), key(S[i]))

GroupCriterion(room) == CHOOSE c \in StoredCriteria(room) : TRUE

\* C13 as stated: the slice emitted for a group is the snapshot records that
\* meet the group's minVolume and minLiquidity, ordered descending by its
\* sort key and cut to its limit; no such record is left out for another
\* reason.
C13_Original ==
    CycleEnded =>
        \A i \in 1..Len(RoomEmits) :
            LET c     == GroupCriterion(RoomEmits[i].room)
                meets(t) == MeetsThresholds(t, c)
            IN  IsOrderedCut(RoomEmits[i].tokens, SelectSeq(last.merged, meets), c)

\* C13 (amended): the slice emitted for a group is the snapshot records that
\* meet the group's minVolume and minLiquidity and whose quality score is at
\* least 50, ordered descending by the group's sort key and cut to its
\* limit.
C13_SliceIsFilteredSortedCut ==
    CycleEnded =>
        \A i \in 1..Len(RoomEmits) :
            LET c     == GroupCriterion(RoomEmits[i].room)
                meets(t) == MeetsThresholds(t, c) /\ MeetsQualityBar(t)
            IN  IsOrderedCut(RoomEmits[i].tokens, SelectSeq(last.merged, meets), c)

\* a group got a non-empty slice that leaves out a record which meets the
\* group's thresholds and is below the quality bar
C13_Witness ==
    /\ CycleEnded
    /\ \E i \in 1..Len(RoomEmits) :
          /\ RoomEmits[i].tokens # <<>>
          /\ \E k \in 1..Len(last.merged) :
                /\ MeetsThresholds(last.merged[k], GroupCriterion(RoomEmits[i].room))
                /\ ~MeetsQualityBar(last.merged[k])
                /\ ~InSeq(last.merged[k], RoomEmits[i].tokens)

\* ---- the one-shot slice sent on join -----------------------------------

JoinSliceSent == last.op = "subscribe:resume"

\* the records of the cached default list entry, none when it is absent
CachedDefaultList == IF cacheList.present THEN cacheList.data ELSE <<>>

\* C14: handling a join starts no upstream fetch and fills no cache entry;
\* the one-shot slice is computed from the cached default list entry alone,
\* and is empty when the entry is absent, whatever Snapshot is stored.
C14_JoinSliceFromCacheOnly ==
    [][/\ last'.op \in {"subscribe:filters", "subscribe:resume"}
          => /\ inFlight' = inFlight
             /\ cacheList' = cacheList
             /\ previousTokens' = previousTokens
       /\ last'.op = "subscribe:resume"
          => /\ Len(delivered') = 1
             /\ delivered'[1].event = "tokens:refresh"
             /\ delivered'[1].scope = "socket"
             /\ delivered'[1].tokens = applyFilters(CachedDefaultList, last'.normalized)
             /\ ~cacheList.present => delivered'[1].tokens = <<>>]_vars

\* a join was answered with a non-empty slice of the cached list while the
\* refresh loop holds no Snapshot
C14_Witness ==
    /\ JoinSliceSent
    /\ cacheList.present
    /\ delivered[1].tokens # <<>>
    /\ delivered[1].to = {last.socket}
    /\ previousTokens = <<>>

\* ---- change detection ---------------------------------------------------

DetectDone == pstage = "out"

\* the records of the old snapshot with the lower-cased address of t
Counterparts(old, t) ==
    {j \in 1..Len(old) : Lower(old[j].token_address) = Lower(t.token_address)}

CallsOf(fn) == LET is(c) == c.fn = fn IN SelectSeq(pout.calls, is)

\* call number i of `calls` emitted one `event` for hits[i], carrying pct
CarriesOne(calls, i, event, hit, pct) ==
    /\ Len(calls[i].emits) = 1
    /\ calls[i].emits[1].event = event
    /\ calls[i].emits[1].tokens = <<hit>>
    /\ calls[i].emits[1].pct = pct

\* C15: for each record detectSignificantChanges reports in a cycle exactly
\* one event is emitted: a price:alert per price hit with changePercent
\* (new price - old price) / old price * 100, a volume:spike per volume
\* hit with spikePercent (new volume - old volume) / old volume * 100, from
\* the matched record of the previous Snapshot.
C15_Original ==
    (DetectDone /\ Len(pin.old) > 0)
        => LET alerts == CallsOf("broadcastPriceAlert")
               spikes == CallsOf("broadcastVolumeSpike")
               ph     == pout.changes.priceChanges
               vh     == pout.changes.volumeSpikes
           IN  /\ Len(alerts) = Len(ph)
               /\ Len(spikes) = Len(vh)
               /\ \A i \in 1..Len(ph) : \A j \in Counterparts(pin.old, ph[i]) :
                     CarriesOne(alerts, i, "price:alert", ph[i],
                                PctChange(ph[i].price_sol, pin.old[j].price_sol))
               /\ \A i \in 1..Len(vh) : \A j \in Counterparts(pin.old, vh[i]) :
                     CarriesOne(spikes, i, "volume:spike", vh[i],
                                PctChange(Num(vh[i].volume_sol),
                                          Num(pin.old[j].volume_sol)))

\* L lists records of the snapshot, in the snapshot's order, each once
IsSublistOf(L, snapshot) ==
    LET listed(t) == InSeq(t, L) IN L = SelectSeq(snapshot, listed)

\* C16: a new-snapshot record without a counterpart in the old snapshot is
\* in neither priceChanges nor volumeSpikes; each list holds new-snapshot
\* records only, in new-snapshot order, each at most once.
C16_NoCounterpartNoHit ==
    DetectDone
        => /\ \A i \in 1..Len(pout.changes.priceChanges) :
                 Counterparts(pin.old, pout.changes.priceChanges[i]) # {}
           /\ \A i \in 1..Len(pout.changes.volumeSpikes) :
                 Counterparts(pin.old, pout.changes.volumeSpikes[i]) # {}
           /\ IsSublistOf(pout.changes.priceChanges, pin.new)
           /\ IsSublistOf(pout.changes.volumeSpikes, pin.new)

\* a first-seen record was passed over while another record of the same
\* snapshot was reported in both lists
C16_Witness ==
    /\ DetectDone
    /\ Len(pin.new) = 2
    /\ Counterparts(pin.old, pin.new[1]) = {}
    /\ pout.changes.priceChanges = <<pin.new[2]>>
    /\ pout.changes.volumeSpikes = <<pin.new[2]>>

\* C17: a record whose matched old price is 0 is never in priceChanges.
C17_Original ==
    DetectDone
        => \A i \in 1..Len(pout.changes.priceChanges) :
              \A j \in Counterparts(pin.old, pout.changes.priceChanges[i]) :
                 pin.old[j].price_sol.n # 0

\* |new - old| / old * 100 >= threshold for old > 0, on exact fractions
PriceMovedBy(new, old, threshold) ==
    Abs(new.n * old.d - old.n * new.d) * 100 >= threshold * old.n * new.d

\* C18: a new-snapshot record with a counterpart of price > 0 is in
\* priceChanges if and only if |new price - old price| / old price * 100
\* is at least the price threshold; drops count like rises.
C18_PriceHitIffThreshold ==
    DetectDone
        => \A k \in 1..Len(pin.new) : \A j \in Counterparts(pin.old, pin.new[k]) :
              pin.old[j].price_sol.n > 0
                 => (InSeq(pin.new[k], pout.changes.priceChanges)
                       <=> PriceMovedBy(pin.new[k].price_sol, pin.old[j].price_sol,
                                        pin.thresholds[1]))

\* under the default threshold a drop from 100 to 90 was reported and a
\* rise from 100 to 104 was not
C18_Witness ==
    /\ DetectDone
    /\ pin.thresholds[1] = PriceChangeThreshold
    /\ Len(pin.new) = 2 /\ Len(pin.old) = 2
    /\ pin.old[1].price_sol = Num(100) /\ pin.old[2].price_sol = Num(100)
    /\ \E k \in 1..2 : pin.new[k].price_sol = Num(90)
    /\ \E k \in 1..2 : pin.new[k].price_sol = Num(104)
    /\ Counterparts(pin.old, pin.new[1]) # {}
    /\ Counterparts(pin.old, pin.new[2]) # {}
    /\ Len(pout.changes.priceChanges) = 1
    /\ pout.changes.priceChanges[1].price_sol = Num(90)

\* C19: a new-snapshot record is in volumeSpikes if and only if it has a
\* counterpart of volume > 0 and (new volume - old volume) / old volume *
\* 100 is at least the volume threshold; a record whose old volume is 0 is
\* never a spike, whatever the threshold.
C19_Original ==
    DetectDone
        => \A k \in 1..Len(pin.new) :
              InSeq(pin.new[k], pout.changes.volumeSpikes)
                 <=> \E j \in Counterparts(pin.old, pin.new[k]) :
                        /\ pin.old[j].volume_sol > 0
                        /\ (pin.new[k].volume_sol - pin.old[j].volume_sol) * 100
                              >= pin.thresholds[2] * pin.old[j].volume_sol

\* ---- the quality score of merged records ---------------------------------

MergeDone == pstage = "out"

\* C20: after a merge the record's quality score is the scoring rule applied
\* to the merged record's own values (averaged price, summed volume,
\* liquidity and transaction_count, its market cap and 1h change).
C20_Original ==
    MergeDone
        => \A i \in 1..Len(pout) :
              pout[i].data_quality_score = calculateQualityScore(pout[i])

ScoreDone == pstage = "out" /\ DOMAIN pout = {"scores", "merged"}

\* the additive point rule, stated on the record's fields
ScoreRule(t) ==
      (IF t.price_sol.k = "num" /\ t.price_sol.n > 0 THEN 20 ELSE 0)
    + (IF t.volume_sol > 0 THEN 20 ELSE 0)
    + (IF t.liquidity_sol > 0 THEN 20 ELSE 0)
    + (IF t.market_cap_sol > 0 THEN 15 ELSE 0)
    + (IF t.transaction_count > 0 THEN 15 ELSE 0)
    + (IF t.price_1hr_change.k # "undef" THEN 10 ELSE 0)

\* which of the six inputs of the score a record has
PresentInputs(t) ==
    {f \in {"price", "volume", "liquidity", "marketCap", "txCount", "priceChange"} :
        \/ f = "price" /\ t.price_sol.k = "num" /\ t.price_sol.n > 0
        \/ f = "volume" /\ t.volume_sol > 0
        \/ f = "liquidity" /\ t.liquidity_sol > 0
        \/ f = "marketCap" /\ t.market_cap_sol > 0
        \/ f = "txCount" /\ t.transaction_count > 0
        \/ f = "priceChange" /\ t.price_1hr_change.k # "undef"}

\* C21: calculateQualityScore returns an integer in [0,100] equal to the sum
\* of +20 (price > 0), +20 (volume > 0), +20 (liquidity > 0), +15 (market cap
\* > 0), +15 (transaction count > 0) and +10 (1h change present, even if
\* zero); a record that has every input another record has scores at least
\* as much; and every record of the merged list carries a score in [0,100].
C21_ScoreIsAdditiveRule ==
    ScoreDone =>
        /\ \A i \in 1..2 : /\ pout.scores[i] = ScoreRule(pin[i])
                            /\ pout.scores[i] \in 0..100
        /\ (PresentInputs(pin[1]) \subseteq PresentInputs(pin[2])
                => pout.scores[1] <= pout.scores[2])
        /\ (PresentInputs(pin[2]) \subseteq PresentInputs(pin[1])
                => pout.scores[2] <= pout.scores[1])
        /\ \A i \in 1..Len(pout.merged) :
                pout.merged[i].data_quality_score \in 0..100

\* a record with a zero 1h change and nothing else scores 10, a full record
\* scores 100, and the two were merged into one record
C21_Witness ==
    /\ ScoreDone
    /\ pin[1].price_1hr_change = Num(0)
    /\ pout.scores[1] = 10
    /\ pout.scores[2] = 100
    /\ Len(pout.merged) = 1
    /\ Len(pout.merged[1].sources) = 2

\* the input records merged into the record of address `addr`, in merge order
Contributors(addr) ==
    SelectSeq(Flat(pin), LAMBDA t : Lower(t.token_address) = Lower(addr))

\* the rank of a source in the configured priority table
ConfiguredRank(src) ==
    CASE src = "dexscreener"   -> 3
      [] src = "jupiter"       -> 2
      [] src = "geckoterminal" -> 1
      [] OTHER                 -> 0

\* the earliest of the records of highest rank
Winner(recs) ==
    recs[CHOOSE i \in 1..Len(recs) :
            /\ \A j \in 1..Len(recs) :
                    ConfiguredRank(recs[j].source) <= ConfiguredRank(recs[i].source)
            /\ \A j \in 1..(i - 1) :
                    ConfiguredRank(recs[j].source) < ConfiguredRank(recs[i].source)]

DisplayFieldsFromWinner(m) ==
    LET w == Winner(Contributors(m.token_address))
    IN  /\ m.token_name = w.token_name
        /\ m.token_ticker = w.token_ticker
        /\ m.protocol = w.protocol
        /\ m.source = w.source

\* C22 (as claimed): name, ticker, protocol label, source label and address
\* of a merged record are those of the earliest contributing record of the
\* highest-priority source.
C22_Original ==
    MergeDone =>
        \A i \in 1..Len(pout) :
            /\ DisplayFieldsFromWinner(pout[i])
            /\ pout[i].token_address
                   = Winner(Contributors(pout[i].token_address)).token_address

\* C22 (amended): name, ticker, protocol label and source label of a merged
\* record are those of the earliest contributing record of the
\* highest-priority source, an unknown source ranking below every known one;
\* the address is the one of the first contributing record in merge order.
C22_DisplayFieldsFromHighestPriority ==
    MergeDone =>
        \A i \in 1..Len(pout) :
            /\ DisplayFieldsFromWinner(pout[i])
            /\ pout[i].token_address = Contributors(pout[i].token_address)[1].token_address

\* an unknown source's record came first, then two records of the
\* highest-priority source: the first of these two gave the name, the first
\* record of all the address
C22_Witness ==
    /\ MergeDone
    /\ Len(pout) = 1
    /\ Len(Flat(pin)) = 3
    /\ Flat(pin)[1].source = "unknown" /\ Flat(pin)[1].token_address = "a"
    /\ Flat(pin)[2].source = "dexscreener" /\ Flat(pin)[2].token_address = "A"
    /\ Flat(pin)[3].source = "dexscreener"
    /\ Flat(pin)[2].token_name # Flat(pin)[3].token_name
    /\ pout[1].token_name = Flat(pin)[2].token_name
    /\ pout[1].source = "dexscreener"
    /\ pout[1].token_address = "a"

FetchDone == pstage = "out" /\ DOMAIN pout = {"results", "merged"}

\* the lists of the sources that answered, DexScreener's before Jupiter's
AnsweredInSourceOrder ==
    (IF pin.outcomes[1].ok THEN <<pin.outcomes[1].value>> ELSE <<>>)
    \o (IF pin.outcomes[2].ok THEN <<pin.outcomes[2].value>> ELSE <<>>)

\* C23: the merged result of a fetch is the same for every completion order
\* of the two upstream calls: it is the merge of the answered lists in the
\* fixed source order, so which source's fields win and the order of each
\* record's sources list do not depend on which call finishes first.
C23_MergeIndependentOfCompletionOrder ==
    FetchDone => pout.merged = mergeTokens(AnsweredInSourceOrder)

\* Jupiter answered first, DexScreener second, both with a record of one
\* address: the merged record lists DexScreener first and has its fields
C23_Witness ==
    /\ FetchDone
    /\ pin.order = <<2, 1>>
    /\ pin.outcomes[1].ok /\ pin.outcomes[2].ok
    /\ \E i \in 1..Len(pout.merged) :
          /\ pout.merged[i].sources = <<"dexscreener", "jupiter">>
          /\ pout.merged[i].token_address = "B"
          /\ pout.merged[i].source = "dexscreener"

\* C24 (as claimed): in a merge step of an existing record with one source
\* and an incoming record, the 24h change of the result is the running
\* average (existing * 1 + incoming) / 2 whenever both sides have a value,
\* zero included, and the other side's value when one side's is undefined.
C24_Original ==
    (ScoreDone /\ Len(pout.merged) = 1) =>
        LET e == pin[1].price_24hr_change
            n == pin[2].price_24hr_change
            m == pout.merged[1].price_24hr_change
        IN  /\ (e.k = "num" /\ n.k = "num") => m = Rat(e.n + n.n, 2)
            /\ (e.k = "undef" /\ n.k = "num") => m = n
            /\ (e.k = "num" /\ n.k = "undef") => m = e

\* C25 (as claimed): the sources list of a merged record names no source
\* more than once.
C25_Original ==
    MergeDone =>
        \A i \in 1..Len(pout) :
            \A j, k \in 1..Len(pout[i].sources) :
                j # k => pout[i].sources[j] # pout[i].sources[k]

SortDone == pstage = "out" /\ DOMAIN pout = {"sorted", "tokens", "filtered"}

\* the metric a sort key selects, an absent change counting as 0
SelectedMetric(t) ==
    LET change(c) == IF c.k = "undef" THEN 0 ELSE c.n
    IN  CASE pin.sortBy = "volume"    -> t.volume_sol
          [] pin.sortBy = "marketCap" -> t.market_cap_sol
          [] pin.sortBy = "liquidity" -> t.liquidity_sol
          [] pin.sortBy = "priceChange" /\ pin.period = "1h"
                                      -> change(t.price_1hr_change)
          [] pin.sortBy = "priceChange" /\ pin.period = "24h"
                                      -> change(t.price_24hr_change)
          [] pin.sortBy = "priceChange" /\ pin.period = "7d"
                                      -> change(t.price_7d_change)

\* C26: for every input and every sort key, sortTokens yields a permutation
\* of the input whose selected metric is non-increasing and in which records
\* with equal keys keep their input order (the i-th input record is named i).
C26_SortIsStableDescendingPermutation ==
    SortDone =>
        /\ Len(pout.sorted) = Len(pin.tokens)
        /\ \A i \in 1..Len(pin.tokens) :
                \E j \in 1..Len(pout.sorted) : pout.sorted[j] = pin.tokens[i]
        /\ \A i, j \in 1..Len(pout.sorted) :
                i < j =>
                    /\ SelectedMetric(pout.sorted[i]) >= SelectedMetric(pout.sorted[j])
                    /\ (SelectedMetric(pout.sorted[i]) = SelectedMetric(pout.sorted[j])
                            => pout.sorted[i].token_name < pout.sorted[j].token_name)

\* sorted by 7d change: the third input record rose to the front, and the
\* record without a 7d change stayed before the later record whose 7d
\* change is 0
C26_Witness ==
    /\ SortDone
    /\ pin.sortBy = "priceChange" /\ pin.period = "7d"
    /\ Len(pin.tokens) = 3
    /\ pin.tokens[1].price_7d_change = Undef
    /\ pin.tokens[2].price_7d_change = Num(0)
    /\ pin.tokens[3].price_7d_change = Num(50)
    /\ pout.sorted = <<pin.tokens[3], pin.tokens[1], pin.tokens[2]>>

\* C27 (as claimed): sortTokens leaves the sequence passed to it unchanged.
C27_Original ==
    SortDone => pout.tokens = pin.tokens

\* the thresholds of the filter stated on a record, an absent one holding
MeetsSupplied(t) ==
    /\ (pin.filters.minVolume.k = "undef" \/ t.volume_sol >= pin.filters.minVolume.n)
    /\ (pin.filters.minLiquidity.k = "undef"
            \/ t.liquidity_sol >= pin.filters.minLiquidity.n)
    /\ (pin.filters.minQualityScore.k = "undef"
            \/ t.data_quality_score >= pin.filters.minQualityScore.n)

\* C28: filterTokens returns exactly the subsequence of the input, in input
\* order, of the records that satisfy every supplied threshold; an absent
\* threshold imposes no constraint and the output is never larger than the
\* input.
C28_FilterIsExactSubsequence ==
    SortDone =>
        /\ pout.filtered = SelectSeq(pin.tokens, MeetsSupplied)
        /\ Len(pout.filtered) <= Len(pin.tokens)

\* all three thresholds supplied: one record fails only the volume bar, one
\* only the quality bar, and the record between them is the output
C28_Witness ==
    /\ SortDone
    /\ pin.filters = [minVolume |-> Num(2), minLiquidity |-> Num(1),
                      minQualityScore |-> Num(50)]
    /\ Len(pin.tokens) = 3
    /\ pin.tokens[1].volume_sol = 0 /\ pin.tokens[1].data_quality_score = 100
    /\ pin.tokens[2].volume_sol = 2
    /\ pin.tokens[3].volume_sol = 1 /\ pin.tokens[3].data_quality_score = 30
    /\ pout.filtered = <<pin.tokens[2]>>

QueryAnswered == DOMAIN pout.response # {}

\* the filtered, sorted list of the last query's own filter
OwnList ==
    sortTokens(filterTokens(fetchAndAggregateTokens(pin.dex, pin.jup),
                            [minVolume       |-> Param(pout.params, "minVolume"),
                             minLiquidity    |-> Param(pout.params, "minLiquidity"),
                             minQualityScore |-> Num(MinQualityScore)]),
               "volume", "24h")

\* the last query's own limit: at most 100, 20 when none is given
OwnLimit ==
    IF "limit" \in DOMAIN pout.params
    THEN (IF pout.params.limit.n > 100 THEN 100 ELSE pout.params.limit.n)
    ELSE 20

\* the last query's cursor carries a numeric offset
CursorWellFormed ==
    /\ "cursor" \in DOMAIN pout.params
    /\ pout.params.cursor.b64json
    /\ "offset" \in DOMAIN pout.params.cursor.value
    /\ pout.params.cursor.value.offset.k = "num"

PageOf(list, offset, limit) ==
    SubSeq(list, offset + 1, IF offset + limit < Len(list) THEN offset + limit
                             ELSE Len(list))

\* C29 (as claimed): every list query without a cursor or with a well-formed
\* one, answered from the cache or not, receives exactly positions
\* [offset, offset + limit) of the filtered, sorted list of its own filter,
\* for its own limit and its own cursor offset.
C29_Original ==
    (QueryAnswered /\ ("cursor" \in DOMAIN pout.params => CursorWellFormed)) =>
        pout.response.data =
            PageOf(OwnList,
                   IF CursorWellFormed THEN pout.params.cursor.value.offset.n ELSE 0,
                   OwnLimit)

\* C30 (as claimed): a list query whose cursor is malformed, computed afresh,
\* is answered with the first page, as if it had no cursor.
C30_Original ==
    (QueryAnswered /\ pout.fetched
       /\ "cursor" \in DOMAIN pout.params /\ ~CursorWellFormed) =>
        /\ pout.response.data = PageOf(OwnList, 0, OwnLimit)
        /\ pout.response.success

\* C31 (as claimed): once stop() has returned, the scheduled task is
\* cancelled, no refresh cycle is in flight, the lock is not held and no
\* cycle emits a broadcast.
C31_Original ==
    pstage = "stopped" =>
        /\ ~cronJob
        /\ inFlight = 0
        /\ ~isRunning
        /\ (last.op = "refresh" => delivered = <<>>)

\* C32: when one upstream call fails and the other succeeds, the failure is
\* not propagated: the fetch completes and its merged result is the merge of
\* the successful source's list alone.
C32_FailedSourceContributesNothing ==
    FetchDone =>
        /\ (~pin.outcomes[1].ok /\ pin.outcomes[2].ok)
              => pout.merged = mergeTokens(<<pin.outcomes[2].value>>)
        /\ (pin.outcomes[1].ok /\ ~pin.outcomes[2].ok)
              => pout.merged = mergeTokens(<<pin.outcomes[1].value>>)

\* DexScreener's call was rejected, Jupiter's answered two records: the
\* fetch completed with these two, each from Jupiter alone
C32_Witness ==
    /\ FetchDone
    /\ ~pin.outcomes[1].ok
    /\ pin.outcomes[2].ok
    /\ Len(pout.merged) = 2
    /\ \A i \in 1..2 : pout.merged[i].sources = <<"jupiter">>

\* C33 (as claimed): every invalid or missing field of a submitted criterion
\* is replaced by its default, and the normalized limit lies in [1,100] for
\* every submitted limit value.
C33_Original ==
    pstage = "out" =>
        /\ pout.sortBy = (IF pin.sortBy \in SortOptions THEN pin.sortBy ELSE "volume")
        /\ pout.period = (IF pin.period \in TimePeriods THEN pin.period ELSE "24h")
        /\ pout.minVolume = (IF pin.minVolume.k = "num" THEN pin.minVolume ELSE Undef)
        /\ pout.minLiquidity
              = (IF pin.minLiquidity.k = "num" THEN pin.minLiquidity ELSE Undef)
        /\ pout.limit.k = "num"
        /\ pout.limit.n >= pout.limit.d
        /\ pout.limit.n <= 100 * pout.limit.d
        /\ (pin.limit.k # "num" \/ pin.limit.n <= 0) => pout.limit = Num(20)

RetryDone == pstage = "done" /\ "calls" \in DOMAIN pout

\* the invocations of fn that were to fail before the first that fulfils
FailuresFirst ==
    IF \E i \in 1..pin.maxAttempts : pin.fulfils[i]
    THEN (CHOOSE i \in 1..pin.maxAttempts :
              pin.fulfils[i] /\ \A j \in 1..(i - 1) : ~pin.fulfils[j]) - 1
    ELSE pin.maxAttempts

\* C34: retryWithBackoff always terminates, having invoked the operation at
\* most maxAttempts times: it returns the value of the first successful
\* attempt without a further invocation; if all maxAttempts attempts fail it
\* rejects with the error of the last attempt; onRetry has been called
\* exactly once after each failed attempt except the maxAttempts-th, with the
\* attempt's number and error.
C34_RetryTerminatesWithinMaxAttempts ==
    /\ <>(pstage = "done")
    /\ [](("calls" \in DOMAIN pout) => pout.calls <= pin.maxAttempts)
    /\ [](RetryDone =>
            /\ (FailuresFirst < pin.maxAttempts)
                  => /\ pout.result = [settled |-> "fulfilled", value |-> "value"]
                     /\ pout.calls = FailuresFirst + 1
            /\ (FailuresFirst = pin.maxAttempts)
                  => /\ pout.result = [settled |-> "rejected",
                                        error |-> pin.maxAttempts]
                     /\ pout.calls = pin.maxAttempts
            /\ pin.onRetry =>
                  pout.retries =
                      [i \in 1..(IF FailuresFirst = pin.maxAttempts
                                 THEN pin.maxAttempts - 1 ELSE FailuresFirst)
                          |-> <<i, i>>])

\* three attempts allowed, all three failed: rejected with the third error
\* after two calls of onRetry
C34_Witness ==
    /\ RetryDone
    /\ pin.maxAttempts = 3
    /\ pin.onRetry
    /\ pout.calls = 3
    /\ pout.result = [settled |-> "rejected", error |-> 3]
    /\ Len(pout.retries) = 2

\* how many of the emits of the last step were handed to socket s
Received(s) == Cardinality({i \in 1..Len(delivered) : s \in delivered[i].to})

\* C35: one call of the token-update broadcast for address X reaches every
\* connected client once globally and once more every client in the room of
\* X: a client in the room receives it twice, a connected client outside it
\* (never joined, or joined and left again) exactly once.
C35_TokenUpdateOncePlusRoom ==
    last.op = "tokenUpdate" =>
        /\ Len(delivered) = 2
        /\ \A i \in 1..2 : delivered[i].event = "token:update"
        /\ \A s \in Sockets :
              Received(s) = (IF s \in connectedClients THEN 1 ELSE 0)
                            + (IF <<TokenRoomId(last.address), s>> \in adapterRooms
                               THEN 1 ELSE 0)
        /\ \A s \in connectedClients :
              last.left = <<s, last.address>> => Received(s) = 1

\* s1 is in the room of "A" and receives the update for "A" twice; s2 has
\* just left that room and receives it once
C35_Witness ==
    /\ last.op = "tokenUpdate"
    /\ last.address = "A"
    /\ last.left = <<"s2", "A">>
    /\ connectedClients = {"s1", "s2"}
    /\ <<TokenRoomId("A"), "s1">> \in adapterRooms
    /\ Received("s1") = 2
    /\ Received("s2") = 1

\* the sum of the (integer) prices of the records
RECURSIVE PriceSum(_)
PriceSum(recs) ==
    IF recs = <<>> THEN 0 ELSE Head(recs).price_sol.n + PriceSum(Tail(recs))

\* C36: after merging n records for one address the merged price is the
\* arithmetic mean of the n contributing prices, whatever the order in which
\* they were merged.
C36_MergedPriceIsMean ==
    MergeDone =>
        \A i \in 1..Len(pout) :
            LET recs == Contributors(pout[i].token_address)
            IN  pout[i].price_sol = Rat(PriceSum(recs), Len(recs))

\* prices 1, 1 and 2 of one address were merged into the price 4/3
C36_Witness ==
    /\ MergeDone
    /\ Len(pout) = 1
    /\ Len(Flat(pin)) = 3
    /\ Flat(pin)[1].price_sol = Num(1)
    /\ Flat(pin)[2].price_sol = Num(1)
    /\ Flat(pin)[3].price_sol = Num(2)
    /\ pout[1].price_sol = Rat(4, 3)

\* C37: every refresh() call that acquires the lock eventually releases it,
\* on every exit path (completion, empty result, exception in the fetch or
\* in a broadcast), provided the upstream fetch returns; a call skipped
\* because the lock is held leaves the lock held; and a trigger that arrives
\* when no cycle is running is never skipped.
C37_LockAlwaysReleased ==
    /\ (isRunning ~> ~isRunning)
    /\ [](last.op = "refresh" => ~isRunning)
    /\ [][(last'.op = "refreshCall" /\ last'.skipped)
             => (isRunning /\ isRunning')]_vars
    /\ [][(last'.op = "refreshCall" /\ ~isRunning) => ~last'.skipped]_vars

\* a cycle in which a broadcast threw has ended with the lock released
C37_Witness ==
    /\ last.op = "refresh"
    /\ last.outcome = "broadcastThrew"
    /\ ~isRunning
    /\ inFlight = 0

\* the last query's cursor offset, 0 without a cursor
OwnOffset == IF CursorWellFormed THEN pout.params.cursor.value.offset.n ELSE 0

\* the records of the pages obtained by following nextCursor, at most
\* `pages` pages further
RECURSIVE FollowCursor(_, _, _, _, _)
FollowCursor(list, hasCursor, cursor, limit, pages) ==
    LET page == paginateResults(list, hasCursor, cursor, limit)
    IN  page.data \o
        (IF page.pagination.hasMore /\ pages > 0
         THEN FollowCursor(list, TRUE, page.pagination.nextCursor, limit, pages - 1)
         ELSE <<>>)

\* C38: for a list query computed fresh with offset o and limit l over a
\* filtered, sorted list of length n: hasMore holds iff o + l < n,
\* nextCursor is non-null iff hasMore and then decodes to offset o + l, total
\* is n, and following nextCursor from offset 0 over the same list visits
\* every record exactly once and in order.
C38_FreshPaginationMeta ==
    (QueryAnswered /\ pout.fetched
       /\ ("cursor" \in DOMAIN pout.params => CursorWellFormed)) =>
        LET pg == pout.response.pagination
            n  == Len(OwnList)
        IN  /\ pg.hasMore = (OwnOffset + OwnLimit < n)
            /\ pg.total = n
            /\ pg.hasMore =>
                  /\ ~decodeCursor(pg.nextCursor).threw
                  /\ decodeCursor(pg.nextCursor).value.offset
                        = Num(OwnOffset + OwnLimit)
            /\ ~pg.hasMore => pg.nextCursor = [null |-> TRUE]
            /\ FollowCursor(OwnList, FALSE, [b64json |-> FALSE], OwnLimit, n) = OwnList

\* a fresh query for one record from offset 1 of a list of three: there is
\* more, and the next cursor stands at offset 2
C38_Witness ==
    /\ QueryAnswered
    /\ pout.fetched
    /\ CursorWellFormed
    /\ OwnOffset = 1
    /\ OwnLimit = 1
    /\ Len(OwnList) = 3
    /\ pout.response.data = <<OwnList[2]>>
    /\ pout.response.pagination.hasMore
    /\ pout.response.pagination.nextCursor = encodeCursor([offset |-> Num(2)])

\* the place of an emit in the program order of one refresh cycle
EmitRank(e) ==
    IF e.event = "price:alert" THEN 1
    ELSE IF e.event = "volume:spike" THEN 2
    ELSE IF e.event = "tokens:refresh" /\ e.scope = "all" THEN 3
    ELSE IF e.event = "tokens:refresh" /\ e.scope = "room" THEN 4
    ELSE 0

GroupEmits == LET is(e) == EmitRank(e) = 4 IN SelectSeq(delivered, is)

\* C39: the part of a refresh cycle after the upstream fetch is one step in
\* which no connection event takes part: it leaves the registry and the
\* client set alone, its emits come in the order price alerts, volume
\* spikes, unfiltered refresh, per-group slices, every namespace-wide emit
\* goes to the clients connected at the end of the cycle, and a completed
\* broadcast pair is one unfiltered refresh followed by one slice per
\* registered group, in registry order, each to that group's members.
C39_PostFetchRunsAtomically ==
    /\ [][inFlight' < inFlight => UNCHANGED wsVars]_vars
    /\ [](CycleEnded =>
            /\ \A i \in 1..Len(delivered) : EmitRank(delivered[i]) \in 1..4
            /\ \A i, j \in 1..Len(delivered) :
                  i < j => EmitRank(delivered[i]) <= EmitRank(delivered[j])
            /\ \A i \in 1..Len(delivered) :
                  delivered[i].scope = "all" => delivered[i].to = connectedClients
            /\ Cardinality({i \in 1..Len(delivered) : EmitRank(delivered[i]) = 3}) <= 1
            /\ GroupEmits # <<>> =>
                  /\ \E i \in 1..Len(delivered) : EmitRank(delivered[i]) = 3
                  /\ Len(GroupEmits) = Len(filterRooms)
                  /\ \A i \in 1..Len(GroupEmits) :
                        /\ GroupEmits[i].room = filterRooms[i].room
                        /\ GroupEmits[i].to
                              = RoomMembers(adapterRooms, filterRooms[i].room)
            /\ (last.outcome = "stored" /\ Len(last.prev) > 0 /\ last.ws
                   /\ connectedClients # {}) =>
                  /\ \E i \in 1..Len(delivered) : EmitRank(delivered[i]) = 3
                  /\ Len(GroupEmits) = Len(filterRooms))

\* a completed cycle that sent a price alert, a volume spike, the unfiltered
\* refresh and a slice to a group that has a member
C39_Witness ==
    /\ CycleEnded
    /\ last.outcome = "stored"
    /\ \A r \in 1..4 : \E i \in 1..Len(delivered) : EmitRank(delivered[i]) = r
    /\ \E i \in 1..Len(GroupEmits) : GroupEmits[i].to # {}

\* a step in which a list query is answered: entries expire in no such step
QueryStep == pout' # pout /\ DOMAIN pout.cache \subseteq DOMAIN pout'.cache

\* C40: a list query that finds a live entry under its key fetches nothing,
\* writes nothing and returns the entry's records with meta.cached = true; a
\* query that misses fetches, returns meta.cached = false and leaves its
\* response stored under its key, other entries untouched, also when the
\* fetched result is empty.
C40_HitReadsMissFetchesAndStores ==
    [][QueryStep =>
        LET key == generateCacheKey(pout'.params)
        IN  IF key \in DOMAIN pout.cache
            THEN /\ ~pout'.fetched
                 /\ pout'.cache = pout.cache
                 /\ pout'.response.data = pout.cache[key].data
                 /\ pout'.response.pagination = pout.cache[key].pagination
                 /\ pout'.response.meta.cached = TRUE
            ELSE /\ pout'.fetched
                 /\ pout'.response.meta.cached = FALSE
                 /\ DOMAIN pout'.cache = DOMAIN pout.cache \cup {key}
                 /\ pout'.cache[key] = pout'.response
                 /\ \A k \in DOMAIN pout.cache : pout'.cache[k] = pout.cache[k]]_vars

\* a query answered from an entry that was stored for an empty fetched list
C40_Witness ==
    /\ QueryAnswered
    /\ ~pout.fetched
    /\ pout.response.meta.cached = TRUE
    /\ pout.response.data = <<>>
    /\ pout.response.pagination.total = 0
    /\ generateCacheKey(pout.params) \in DOMAIN pout.cache

=============================================================================
